---- MODULE Spec2Model ----
(***************************************************************************)
(* flcli (src/apps/flcli/main.c): the command mini-language of parseLine   *)
(* and the chunked transfer engine doRead / doWrite, run against the       *)
(* FPGALink channel transport.                                             *)
(*                                                                         *)
(* A command line is a sequence of one-character strings; the cursor `ptr` *)
(* is its offset from the start of the line, and offset Len(line) holds    *)
(* the terminating NUL.  Bytes are integers 0..255.  The bytes a channel   *)
(* delivers and the bytes of a source file are given by their offset       *)
(* (DevByte, FileByte), so that a 64 KiB chunk is a pair (offset, length)  *)
(* in the state and its bytes are computed where the code reads them.      *)
(***************************************************************************)
EXTENDS Integers, Sequences, FiniteSets, Bags, TLC

\* ------------------------------------------------------------------------
\* Bounds of the model
\* ------------------------------------------------------------------------

\* Transfers of up to MaxChunks full chunks (one byte less, exactly, one more).
MaxChunks == 2

\* Every line of at most MaxLineLen characters over Alphabet is an input.
MaxLineLen == 3

\* The longest byte sequence whose hex encoding is written from a line.
MaxBytes == 2

\* ------------------------------------------------------------------------
\* Program constants
\* ------------------------------------------------------------------------

READ_MAX == 65536

WRITE_MAX == 65536 - 5

FLP_SUCCESS == 0

FLP_LIBERR == 1

FLP_BAD_HEX == 2

FLP_CHAN_RANGE == 3

FLP_CONDUIT_RANGE == 4

FLP_ILL_CHAR == 5

FLP_UNTERM_STRING == 6

FLP_NO_MEMORY == 7

FLP_EMPTY_STRING == 8

FLP_ODD_DIGITS == 9

FLP_CANNOT_LOAD == 10

FLP_CANNOT_SAVE == 11

\* ------------------------------------------------------------------------
\* Characters
\* ------------------------------------------------------------------------

\* The terminator of a C string, read at offset Len(line).
NUL == "NUL"

\* What a read past the terminator yields (no such read is defined in C).
OOB == "OOB"

DecDigits == <<"0", "1", "2", "3", "4", "5", "6", "7", "8", "9">>

LowDigits == <<"a", "b", "c", "d", "e", "f">>

UpDigits == <<"A", "B", "C", "D", "E", "F">>

\* The index of ch in the sequence s (ch occurs in s).
IndexIn(s, ch) == CHOOSE i \in 1..Len(s) : s[i] = ch

InSeq(s, ch) == \E i \in 1..Len(s) : s[i] = ch

\* *(l + p)
CharAt(l, p) == IF p < Len(l) THEN l[p + 1] ELSE IF p = Len(l) THEN NUL ELSE OOB

isHexDigit(ch) == InSeq(DecDigits, ch) \/ InSeq(LowDigits, ch) \/ InSeq(UpDigits, ch)

\* getHexNibble: fail is the C function's return value, nibble what it stores.
getHexNibble(hexDigit) ==
    IF InSeq(DecDigits, hexDigit)
    THEN [fail |-> FALSE, nibble |-> IndexIn(DecDigits, hexDigit) - 1]
    ELSE IF InSeq(LowDigits, hexDigit)
    THEN [fail |-> FALSE, nibble |-> IndexIn(LowDigits, hexDigit) - 1 + 10]
    ELSE IF InSeq(UpDigits, hexDigit)
    THEN [fail |-> FALSE, nibble |-> IndexIn(UpDigits, hexDigit) - 1 + 10]
    ELSE [fail |-> TRUE, nibble |-> 0]

\* Mutant: the first digit of a pair is taken for the lower nibble.
getHexByte_LowFirst(l, p) ==
    LET u == getHexNibble(CharAt(l, p))
        w == getHexNibble(CharAt(l, p + 1))
    IN  IF ~u.fail /\ ~w.fail
        THEN [fail |-> FALSE, byte |-> (w.nibble * 16 + u.nibble) % 256]
        ELSE [fail |-> TRUE, byte |-> 0]

\* getHexByte at cursor p: (upperNibble << 4) | lowerNibble, or failure.
getHexByte(l, p) ==
    LET u == getHexNibble(CharAt(l, p))
        w == getHexNibble(CharAt(l, p + 1))
    IN  IF ~u.fail /\ ~w.fail
        THEN [fail |-> FALSE, byte |-> (u.nibble * 16 + w.nibble) % 256]
        ELSE [fail |-> TRUE, byte |-> 0]

\* ------------------------------------------------------------------------
\* Checksum
\* ------------------------------------------------------------------------

\* The loop  while ( n-- ) cksum = (uint16)(cksum + *data++);  over the n
\* bytes data[lo], data[lo+1], ...: the running sum is threaded through the
\* bytes in order, first through the first half of the range and then on
\* through the second, which keeps the evaluation depth logarithmic in n.
\* (cksum < 0 never holds: the test makes the running sum a value before the
\* next byte is added to it.)
RECURSIVE SumBytes(_, _, _, _)
SumBytes(cksum, data, lo, n) ==
    IF n = 0 \/ cksum < 0 THEN cksum
    ELSE IF n = 1 THEN (cksum + data[lo]) % 65536
    ELSE SumBytes(SumBytes(cksum, data, lo, n \div 2), data, lo + (n \div 2), n - (n \div 2))

\* Mutant: the checksum is the last byte alone.
calcChecksum_LastByte(data, length) == IF length = 0 THEN 0 ELSE data[length]

calcChecksum(data, length) == SumBytes(0, data, 1, length)

\* ------------------------------------------------------------------------
\* strtoul(nptr, &end, 16)
\* ------------------------------------------------------------------------

\* isspace, for the characters a line can hold.
isspace(ch) == ch \in {" ", "\t", "\n", "\r"}

RECURSIVE SkipSpace(_, _)
SkipSpace(l, p) == IF isspace(CharAt(l, p)) THEN SkipSpace(l, p + 1) ELSE p

\* The end of the run of hex digits that starts at p.
RECURSIVE HexRunEnd(_, _)
HexRunEnd(l, p) == IF isHexDigit(CharAt(l, p)) THEN HexRunEnd(l, p + 1) ELSE p

\* The digits of a run after its leading zeros.
RECURSIVE SkipZeros(_, _, _)
SkipZeros(l, p, e) == IF p < e /\ CharAt(l, p) = "0" THEN SkipZeros(l, p + 1, e) ELSE p

\* The value of the hex digits at p..e-1, most significant first.
\* The hex digits an unsigned long holds: 8 where it has 32 bits (ILP32,
\* and the WIN32 build), 16 where it has 64 (LP64).
UlongDigits == {8, 16}

\* An unsigned long is kept as its four 16-bit limbs, the most significant
\* first (the upper two are 0 where it has 32 bits).
\* Digit k, counted from the right, of the hex digits from sig to e.
NibbleAt(l, sig, e, k) ==
    IF k < e - sig THEN getHexNibble(CharAt(l, e - 1 - k)).nibble ELSE 0

\* Limb j, counted from the right, of that number.
LimbAt(l, sig, e, j) ==
    NibbleAt(l, sig, e, 4 * j) + 16 * NibbleAt(l, sig, e, 4 * j + 1)
        + 256 * NibbleAt(l, sig, e, 4 * j + 2) + 4096 * NibbleAt(l, sig, e, 4 * j + 3)

Limbs(l, sig, e) ==
    <<LimbAt(l, sig, e, 3), LimbAt(l, sig, e, 2), LimbAt(l, sig, e, 1), LimbAt(l, sig, e, 0)>>

\* Limb j (from the left) of the negation of ul modulo 2^64.
NegLimb(ul, j) ==
    IF \A i \in (j + 1)..4 : ul[i] = 0 THEN (65536 - ul[j]) % 65536 ELSE 65535 - ul[j]

\* The negation of ul in an unsigned long of `digits` hex digits.
Negated(ul, digits) ==
    IF digits = 16
    THEN <<NegLimb(ul, 1), NegLimb(ul, 2), NegLimb(ul, 3), NegLimb(ul, 4)>>
    ELSE <<0, 0, NegLimb(ul, 3), NegLimb(ul, 4)>>

\* ULONG_MAX
UlongMax(digits) ==
    IF digits = 16 THEN <<65535, 65535, 65535, 65535>> ELSE <<0, 0, 65535, 65535>>

\* (uint32)ul
Uint32(ul) == <<0, 0, ul[3], ul[4]>>

\* (uint8)ul
Uint8(ul) == ul[4] % 256

\* ul > bound, for a bound below 65536.
Exceeds(ul, bound) == ul[1] # 0 \/ ul[2] # 0 \/ ul[3] # 0 \/ ul[4] > bound

\* Byte counts are numbers of the model up to 2^28; every greater one is
\* taken for 2^28 (no line of the model asks for that many bytes).
Huge == 4096 * 65536

AsCount(ul) ==
    IF ul[1] = 0 /\ ul[2] = 0 /\ ul[3] < 4096 THEN ul[3] * 65536 + ul[4] ELSE Huge

\* strtoul(l + p, &end, 16) in a C library lc: optional white space, an
\* optional sign, an optional 0x, then hex digits.  ul is the unsigned long
\* returned (negated modulo its width after a minus sign, ULONG_MAX on
\* overflow), end is the offset of the first character not converted (p
\* itself when there are no digits), errno is ERANGE on overflow, and EINVAL
\* when nothing is converted and the C library reports that (lc.einval).
\* The digits run from s2 to e, the significant ones from sig; s0 is where
\* the sign would be.
StrtoulResult(l, p, lc, s0, s2, e, sig) ==
    IF e = s2
    THEN [ul |-> <<0, 0, 0, 0>>, end |-> p, errno |-> IF lc.einval THEN "EINVAL" ELSE "0"]
    ELSE IF e - sig > lc.digits
    THEN [ul |-> UlongMax(lc.digits), end |-> e, errno |-> "ERANGE"]
    ELSE [ul |-> IF CharAt(l, s0) = "-" THEN Negated(Limbs(l, sig, e), lc.digits)
                 ELSE Limbs(l, sig, e),
          end |-> e, errno |-> "0"]

StrtoulDigits(l, p, lc, s0, s2, e) ==
    StrtoulResult(l, p, lc, s0, s2, e, SkipZeros(l, s2, e))

\* s1 is the offset after the sign: a 0x counts only before a hex digit.
StrtoulPrefix(l, p, lc, s0, s1) ==
    IF /\ CharAt(l, s1) = "0"
       /\ CharAt(l, s1 + 1) \in {"x", "X"}
       /\ isHexDigit(CharAt(l, s1 + 2))
    THEN StrtoulDigits(l, p, lc, s0, s1 + 2, HexRunEnd(l, s1 + 2))
    ELSE StrtoulDigits(l, p, lc, s0, s1, HexRunEnd(l, s1))

\* s0 is the offset after the white space.
StrtoulSign(l, p, lc, s0) ==
    StrtoulPrefix(l, p, lc, s0, IF CharAt(l, s0) \in {"+", "-"} THEN s0 + 1 ELSE s0)

strtoul(l, p, lc) == StrtoulSign(l, p, lc, SkipSpace(l, p))

\* ------------------------------------------------------------------------
\* parseLine: the syntax of one action
\* ------------------------------------------------------------------------

RECURSIVE SkipSemis(_, _)
SkipSemis(l, p) == IF CharAt(l, p) = ";" THEN SkipSemis(l, p + 1) ELSE p

\* while ( *p != quoteChar && *p != '\0' ) p++;
RECURSIVE ScanQuote(_, _, _)
ScanQuote(l, p, quoteChar) ==
    IF CharAt(l, p) # quoteChar /\ CharAt(l, p) # NUL THEN ScanQuote(l, p + 1, quoteChar) ELSE p

\* What the parser finds for one action.  kind "err": the CHECK_STATUS that
\* fails, with its code and the cursor at that moment.  Otherwise the action
\* to execute: "rmem" a read into the OutputBuffer, "rfile" a read to a
\* file, "wfile" a write from a file, "whex" a write of inline bytes, "sel"
\* a conduit selection; at is the cursor when the action's buffers are
\* allocated, ptr the cursor after the action.
Parsed(kind, code, ptrv, at, ch, len, name, bytes) ==
    [kind |-> kind, code |-> code, ptr |-> ptrv, at |-> at, chan |-> ch,
     len |-> len, name |-> name, bytes |-> bytes]

\* Mutant: a parse error leaves the cursor at the start of the line.
ParseErr_LineStart(code, ptrv) == Parsed("err", code, 0, 0, 0, 0, <<>>, <<>>)

ParseErr(code, ptrv) == Parsed("err", code, ptrv, ptrv, 0, 0, <<>>, <<>>)

\* The file name of a read: the quote is at start - 1, the scan stopped at q.
ReadName(l, s, t, quoteChar, start, q) ==
    IF quoteChar # "\"" /\ quoteChar # "'" THEN ParseErr(FLP_ILL_CHAR, start - 1)
    ELSE IF CharAt(l, q) = NUL THEN ParseErr(FLP_UNTERM_STRING, start)
    ELSE Parsed("rfile", 0, q + 1, start, Uint8(s.ul), AsCount(Uint32(t.ul)), SubSeq(l, start + 1, q), <<>>)

\* The read count t, which strtoul was given at p.
ReadCount(l, p, s, t) ==
    IF t.errno # "0" THEN ParseErr(FLP_BAD_HEX, p)
    ELSE IF CharAt(l, t.end) \notin {NUL, ";", " "} THEN ParseErr(FLP_ILL_CHAR, t.end)
    ELSE IF CharAt(l, t.end) # " " THEN Parsed("rmem", 0, t.end, t.end, Uint8(s.ul), AsCount(Uint32(t.ul)),
                <<>>, <<>>)
    ELSE ReadName(l, s, t, CharAt(l, t.end + 1), t.end + 2,
                  ScanQuote(l, t.end + 2, CharAt(l, t.end + 1)))

\* The channel s of a read, which strtoul was given at p.
ReadChan(l, p, lc, s) ==
    IF s.errno # "0" THEN ParseErr(FLP_BAD_HEX, p)
    ELSE IF Exceeds(Uint32(s.ul), 127) THEN ParseErr(FLP_CHAN_RANGE, p)
    ELSE IF CharAt(l, s.end) \notin {NUL, ";", " "} THEN ParseErr(FLP_ILL_CHAR, s.end)
    ELSE IF CharAt(l, s.end) # " " THEN Parsed("rmem", 0, s.end, s.end, Uint8(s.ul), 1, <<>>, <<>>)
    ELSE ReadCount(l, s.end + 1, s, strtoul(l, s.end + 1, lc))

\* case 'r', with the cursor p just after the letter.
ParseRead(l, p, lc) == ReadChan(l, p, lc, strtoul(l, p, lc))

\* The bytes of the n hex pairs at p: getHexByte(dataPtr++); ptr += 2;
HexBytes(l, p, n) == [i \in 1..n |-> getHexByte(l, p + 2 * (i - 1)).byte]

\* The file name of a write: the scan from start stopped at q.
WriteName(l, s, start, q) ==
    IF CharAt(l, q) = NUL THEN ParseErr(FLP_UNTERM_STRING, start)
    ELSE Parsed("wfile", 0, q + 1, start, Uint8(s.ul), 1, SubSeq(l, start + 1, q), <<>>)

\* Mutant: an odd last digit is dropped.
WriteBytes_DropOdd(l, s, from, q) ==
    Parsed("whex", 0, q, from, Uint8(s.ul), (q - from) \div 2, <<>>,
           HexBytes(l, from, (q - from) \div 2))

\* The inline bytes of a write: the hex digits run from `from` to q.
WriteBytes(l, s, from, q) ==
    IF (q - from) % 2 = 1 THEN ParseErr(FLP_ODD_DIGITS, from)
    ELSE Parsed("whex", 0, q, from, Uint8(s.ul), (q - from) \div 2, <<>>,
                HexBytes(l, from, (q - from) \div 2))

\* The channel s of a write, which strtoul was given at p; ch = *++ptr.
WriteChan(l, p, s, ch) ==
    IF s.errno # "0" THEN ParseErr(FLP_BAD_HEX, p)
    ELSE IF Exceeds(s.ul, 127) THEN ParseErr(FLP_CHAN_RANGE, p)
    ELSE IF CharAt(l, s.end) # " " THEN ParseErr(FLP_ILL_CHAR, s.end)
    ELSE IF ch = "\"" \/ ch = "'" THEN WriteName(l, s, s.end + 2, ScanQuote(l, s.end + 2, ch))
    ELSE IF isHexDigit(ch) THEN WriteBytes(l, s, s.end + 1, HexRunEnd(l, s.end + 2))
    ELSE ParseErr(FLP_ILL_CHAR, s.end + 1)

WriteAt(l, p, s) == WriteChan(l, p, s, CharAt(l, s.end + 1))

\* case 'w', with the cursor p just after the letter.
ParseWrite(l, p, lc) == WriteAt(l, p, strtoul(l, p, lc))

\* Mutant: the character after the conduit is not looked at.
ConduitOf_AnyFollower(l, p, s) ==
    IF s.errno # "0" THEN ParseErr(FLP_BAD_HEX, p)
    ELSE IF Exceeds(Uint32(s.ul), 255) THEN ParseErr(FLP_CONDUIT_RANGE, p)
    ELSE Parsed("sel", 0, s.end, s.end, Uint8(s.ul), 0, <<>>, <<>>)

\* The conduit s, which strtoul was given at p.
ConduitOf(l, p, s) ==
    IF s.errno # "0" THEN ParseErr(FLP_BAD_HEX, p)
    ELSE IF Exceeds(Uint32(s.ul), 255) THEN ParseErr(FLP_CONDUIT_RANGE, p)
    ELSE IF CharAt(l, s.end) # NUL /\ CharAt(l, s.end) # ";" THEN ParseErr(FLP_ILL_CHAR, s.end)
    ELSE Parsed("sel", 0, s.end, s.end, Uint8(s.ul), 0, <<>>, <<>>)

\* case '+', with the cursor p just after the character.
ParseConduit(l, p, lc) == ConduitOf(l, p, strtoul(l, p, lc))

\* switch ( *ptr ), with the cursor q after the separators.
Switch(l, q, lc) ==
    IF CharAt(l, q) = "r" THEN ParseRead(l, q + 1, lc)
    ELSE IF CharAt(l, q) = "w" THEN ParseWrite(l, q + 1, lc)
    ELSE IF CharAt(l, q) = "+" THEN ParseConduit(l, q + 1, lc)
    ELSE ParseErr(FLP_ILL_CHAR, q)

\* One turn of the do loop with the cursor at p: skip the separators, then
\* switch on the character.
ParseAction(l, p, lc) == Switch(l, SkipSemis(l, p), lc)

\* ------------------------------------------------------------------------
\* State
\* ------------------------------------------------------------------------

VARIABLES
    line,               \* parseLine: the command line
    ptr,                \* the module-wide cursor, as an offset into line
    libc,               \* the C library: whether strtoul sets errno when it converts
                        \* nothing (einval), the hex digits of an unsigned long (digits)
    enableBenchmarking, \* the -b flag
    seed,               \* selects the bytes the device and the source file hold
    pc,                 \* where control is
    retVal,             \* parseLine's return code
    actNo,              \* parseLine: the number of the action at the cursor
    chan,               \* the channel of the action being executed
    length,             \* parseLine's length: the byte count asked for, or written
    status,             \* the ReturnCode doRead / doWrite returned
    checksum,           \* *checksum, as returned by doRead / doWrite
    rdLength,           \* doRead's length: bytes not yet submitted
    recv,               \* doRead: recvData and actualLength of the last await
    csVal,              \* doRead / doWrite: the running checksum
    lenVal,             \* doWrite: the running total
    bytesRead,          \* doWrite: what the last fread returned
    srcLen,             \* the size of the file doWrite reads
    srcPos,             \* its read position
    file,               \* the mode of the FILE* of the action, or NONE
    fileData,           \* what has been written to the destination file
    dataFromFPGA,       \* the OutputBuffer
    out,                \* what has been printed: dump, throughput, diagnostic
    res,                \* resource events: malloc, free, fopen, fclose, ...
    calls,              \* the transport calls made so far, in order
    outstanding,        \* transport: submitted reads not yet awaited (FIFO)
    devPos,             \* transport: bytes of the channel stream handed out
    conduit,            \* transport: the selected conduit
    cipher,             \* encrypt / decrypt: the word, the key and the calls made
    rail                \* main, case 'f': the locals of the rail-info loop

\* main's own state, which parseLine and its callees never touch
mainState == <<cipher, rail>>

env == <<line, libc, enableBenchmarking, seed, mainState>>

parser == <<ptr, retVal, actNo, chan, length>>

engine == <<status, checksum, rdLength, recv, csVal, lenVal, bytesRead, srcLen, srcPos>>

owned == <<file, fileData, dataFromFPGA, res>>

transport == <<calls, outstanding, devPos, conduit>>

vars == <<env, parser, engine, owned, transport, pc, out>>

NONE == "NONE"

\* ------------------------------------------------------------------------
\* The environment: device data, source file data
\* ------------------------------------------------------------------------

Seeds == {0, 255}

\* Byte i of the stream a channel delivers.  With seed 0 the device counts
\* 0x00, 0x01, ...; with seed 255 every byte is 0xFF.
DevByte(i) == IF seed = 0 THEN i % 256 ELSE 255

\* Byte i of the source file of a Write.
FileByte(i) == IF seed = 0 THEN (i * 7 + 3) % 256 ELSE 255

\* The len bytes from offset off of the channel stream / of the source file.
DevBytes(off, len) == [i \in 1..len |-> DevByte(off + i - 1)]

FileBytes(off, len) == [i \in 1..len |-> FileByte(off + i - 1)]

\* The byte counts of the engine's inputs: around every multiple of max.
Lengths(max) == {n \in {q * max + d : q \in 0..MaxChunks, d \in {-1, 0, 1}} : n >= 0}

\* ------------------------------------------------------------------------
\* The transport (libfpgalink), as the calls of main.c see it
\* ------------------------------------------------------------------------

\* One transport call: op is the function, arg its channel or conduit, len
\* its byte count, ok its FLStatus, id the read chunk it submits or returns,
\* src/off where the bytes come from, bytes the bytes of an inline write,
\* act the action of the line that made it.
Call(op, arg, len, ok, id, src, off, bytes) ==
    [op |-> op, arg |-> arg, len |-> len, ok |-> ok, id |-> id,
     src |-> src, off |-> off, bytes |-> bytes, act |-> actNo]

SubmitsOk == SelectSeq(calls, LAMBDA c : c.op = "submit" /\ c.ok)

\* flReadChannelAsyncSubmit(handle, ch, n, NULL, error)
flReadChannelAsyncSubmit(ch, n, ok) ==
    LET id == Len(SubmitsOk) + 1
    IN  /\ calls' = Append(calls, Call("submit", ch, n, ok, id, "dev", devPos, <<>>))
        /\ outstanding' = IF ok THEN Append(outstanding, [id |-> id, off |-> devPos, len |-> n])
                          ELSE outstanding
        /\ devPos' = IF ok THEN devPos + n ELSE devPos
        /\ UNCHANGED conduit

\* flReadChannelAsyncAwait(handle, &recvData, &actualLength, &actualLength, error):
\* returns the oldest submitted read; with none submitted it fails.
flReadChannelAsyncAwait(ok) ==
    LET head == IF outstanding = <<>> THEN [id |-> 0, off |-> devPos, len |-> 0]
                ELSE Head(outstanding)
    IN  /\ ok => outstanding # <<>>
        /\ calls' = Append(calls, Call("await", chan, head.len, ok, head.id, "dev", head.off, <<>>))
        /\ outstanding' = IF outstanding = <<>> THEN outstanding ELSE Tail(outstanding)
        /\ recv' = IF ok THEN [off |-> head.off, len |-> head.len] ELSE recv
        /\ UNCHANGED <<devPos, conduit>>

\* flWriteChannelAsync(handle, ch, n, buffer, error), buffer holding the n
\* bytes of the source file from offset off.
flWriteChannelAsync(ch, n, off, ok) ==
    /\ calls' = Append(calls, Call("writeAsync", ch, n, ok, 0, "file", off, <<>>))
    /\ UNCHANGED <<outstanding, devPos, conduit>>

\* flAwaitAsyncWrites(handle, error)
flAwaitAsyncWrites(ok) ==
    /\ calls' = Append(calls, Call("awaitWrites", chan, 0, ok, 0, "none", 0, <<>>))
    /\ UNCHANGED <<outstanding, devPos, conduit>>

\* ------------------------------------------------------------------------
\* doRead
\* ------------------------------------------------------------------------

\* Mutant: the chunk is not capped at READ_MAX.
ReadChunkSize_NoCap(len) == len

\* chunkSize = length >= READ_MAX ? READ_MAX : length;
ReadChunkSize(len) == IF len >= READ_MAX THEN READ_MAX ELSE len

\* Mutant: the loop body is never entered.
ReadLoopTest_NoLoop(len) == "rd_last"

\* while ( length ): the loop body comes next, or the await of the last chunk.
ReadLoopTest(len) == IF len # 0 THEN "rd_submit" ELSE "rd_last"

\* "Read first chunk": submit it, then test the loop condition.
RdSubmitFirst ==
    /\ pc = "rd_first"
    /\ \E ok \in BOOLEAN :
        /\ flReadChannelAsyncSubmit(chan, ReadChunkSize(rdLength), ok)
        /\ IF ok
           THEN /\ rdLength' = rdLength - ReadChunkSize(rdLength)
                /\ pc' = ReadLoopTest(rdLength')
                /\ UNCHANGED status
           ELSE /\ status' = FLP_LIBERR
                /\ pc' = "rd_ret"
                /\ UNCHANGED rdLength
    /\ UNCHANGED <<env, parser, owned, out, checksum, recv, csVal, lenVal, bytesRead, srcLen, srcPos>>

\* "Read chunk N": submit it before chunk N-1 is awaited.
RdSubmitNext ==
    /\ pc = "rd_submit"
    /\ \E ok \in BOOLEAN :
        /\ flReadChannelAsyncSubmit(chan, ReadChunkSize(rdLength), ok)
        /\ IF ok
           THEN /\ rdLength' = rdLength - ReadChunkSize(rdLength)
                /\ pc' = "rd_await"
                /\ UNCHANGED status
           ELSE /\ status' = FLP_LIBERR
                /\ pc' = "rd_ret"
                /\ UNCHANGED rdLength
    /\ UNCHANGED <<env, parser, owned, out, checksum, recv, csVal, lenVal, bytesRead, srcLen, srcPos>>

\* Mutant: chunk N-1 is processed without being awaited.
RdAwait_Skipped ==
    /\ pc = "rd_await"
    /\ pc' = "rd_write"
    /\ UNCHANGED <<env, parser, engine, owned, transport, out>>

\* "Await chunk N-1"
RdAwait ==
    /\ pc = "rd_await"
    /\ \E ok \in BOOLEAN :
        /\ flReadChannelAsyncAwait(ok)
        /\ IF ok
           THEN pc' = "rd_write" /\ UNCHANGED status
           ELSE pc' = "rd_ret" /\ status' = FLP_LIBERR
    /\ UNCHANGED <<env, parser, owned, out, checksum, rdLength, csVal, lenVal, bytesRead, srcLen, srcPos>>

\* What fwrite(recvData, 1, n, destFile) may return: n, or less (one less
\* stands for every short count).
FwriteCounts(n) == IF n > 0 THEN {n, n - 1} ELSE {n}

\* Mutant: the running checksum starts afresh with every chunk.
ReadChecksum_Reset(cs, chunk) == SumBytes(0, DevBytes(chunk.off, chunk.len), 1, chunk.len)

\* The running checksum after the bytes of the chunk just awaited.
ReadChecksum(cs, chunk) == SumBytes(cs, DevBytes(chunk.off, chunk.len), 1, chunk.len)

\* Mutant: the count fwrite returns is not looked at.
RdWrite_Unchecked ==
    /\ pc = "rd_write"
    /\ \E bytesWritten \in FwriteCounts(recv.len) :
        /\ fileData' = Append(fileData, [off |-> recv.off, len |-> bytesWritten])
        /\ csVal' = ReadChecksum(csVal, recv)
        /\ pc' = ReadLoopTest(rdLength)
        /\ UNCHANGED status
    /\ UNCHANGED <<env, parser, transport, out, checksum, rdLength, recv, lenVal, bytesRead, srcLen, srcPos>>
    /\ UNCHANGED <<file, dataFromFPGA, res>>

\* "Write chunk N-1 to file", "Checksum chunk N-1", then the loop condition.
RdWrite ==
    /\ pc = "rd_write"
    /\ \E bytesWritten \in FwriteCounts(recv.len) :
        /\ fileData' = Append(fileData, [off |-> recv.off, len |-> bytesWritten])
        /\ IF bytesWritten # recv.len
           THEN /\ status' = FLP_CANNOT_SAVE
                /\ pc' = "rd_ret"
                /\ UNCHANGED csVal
           ELSE /\ csVal' = ReadChecksum(csVal, recv)
                /\ pc' = ReadLoopTest(rdLength)
                /\ UNCHANGED status
    /\ UNCHANGED <<env, parser, transport, out, checksum, rdLength, recv, lenVal, bytesRead, srcLen, srcPos>>
    /\ UNCHANGED <<file, dataFromFPGA, res>>

\* "Await last chunk"
RdAwaitLast ==
    /\ pc = "rd_last"
    /\ \E ok \in BOOLEAN :
        /\ flReadChannelAsyncAwait(ok)
        /\ IF ok
           THEN pc' = "rd_writelast" /\ UNCHANGED status
           ELSE pc' = "rd_ret" /\ status' = FLP_LIBERR
    /\ UNCHANGED <<env, parser, owned, out, checksum, rdLength, csVal, lenVal, bytesRead, srcLen, srcPos>>

\* "Write last chunk to file", "Checksum last chunk", "Return checksum to caller"
RdWriteLast ==
    /\ pc = "rd_writelast"
    /\ \E bytesWritten \in FwriteCounts(recv.len) :
        /\ fileData' = Append(fileData, [off |-> recv.off, len |-> bytesWritten])
        /\ IF bytesWritten # recv.len
           THEN /\ status' = FLP_CANNOT_SAVE
                /\ UNCHANGED <<csVal, checksum>>
           ELSE /\ csVal' = ReadChecksum(csVal, recv)
                /\ checksum' = csVal'
                /\ status' = FLP_SUCCESS
    /\ pc' = "rd_ret"
    /\ UNCHANGED <<env, parser, transport, out, rdLength, recv, lenVal, bytesRead, srcLen, srcPos>>
    /\ UNCHANGED <<file, dataFromFPGA, res>>

doRead == RdSubmitFirst \/ RdSubmitNext \/ RdAwait \/ RdWrite \/ RdAwaitLast \/ RdWriteLast

\* ------------------------------------------------------------------------
\* doWrite
\* ------------------------------------------------------------------------

\* What fread(buffer, 1, WRITE_MAX, srcFile) returns with `left` bytes to go.
FreadCount(left) == IF left >= WRITE_MAX THEN WRITE_MAX ELSE left

\* Mutant: the loop goes on until a read returns nothing.
WriteLoopTest_UntilEmpty(n) == IF n # 0 THEN "wr_fread" ELSE "wr_barrier"

\* } while ( bytesRead == WRITE_MAX );
WriteLoopTest(n) == IF n = WRITE_MAX THEN "wr_fread" ELSE "wr_barrier"

\* The running checksum after the n bytes of the buffer, read from offset off.
WriteChecksum(cs, off, n) == SumBytes(cs, FileBytes(off, n), 1, n)

\* "Read Nth chunk", "Update running total"; with nothing read, the loop
\* condition.
WrFread ==
    /\ pc = "wr_fread"
    /\ bytesRead' = FreadCount(srcLen - srcPos)
    /\ srcPos' = srcPos + bytesRead'
    /\ res' = Append(res, "fread")
    /\ IF bytesRead' # 0
       THEN lenVal' = lenVal + bytesRead' /\ pc' = "wr_submit"
       ELSE lenVal' = lenVal /\ pc' = WriteLoopTest(bytesRead')
    /\ UNCHANGED <<env, parser, transport, out, status, checksum, rdLength, recv, csVal, srcLen>>
    /\ UNCHANGED <<file, fileData, dataFromFPGA>>

\* Mutant: the status of the submission is not checked.
WrSubmit_Unchecked ==
    /\ pc = "wr_submit"
    /\ \E ok \in BOOLEAN : flWriteChannelAsync(chan, bytesRead, srcPos - bytesRead, ok)
    /\ csVal' = SumBytes(csVal, FileBytes(srcPos - bytesRead, bytesRead), 1, bytesRead)
    /\ pc' = IF bytesRead = WRITE_MAX THEN "wr_fread" ELSE "wr_barrier"
    /\ UNCHANGED <<env, ptr, retVal, actNo, chan, length, owned, out>>
    /\ UNCHANGED <<status, checksum, rdLength, recv, lenVal, bytesRead, srcLen, srcPos>>

\* "Submit Nth chunk", "Checksum Nth chunk", then the loop condition.
WrSubmit ==
    /\ pc = "wr_submit"
    /\ \E ok \in BOOLEAN :
        /\ flWriteChannelAsync(chan, bytesRead, srcPos - bytesRead, ok)
        /\ IF ok
           THEN /\ csVal' = WriteChecksum(csVal, srcPos - bytesRead, bytesRead)
                /\ pc' = WriteLoopTest(bytesRead)
                /\ UNCHANGED status
           ELSE /\ status' = FLP_LIBERR
                /\ pc' = "wr_ret"
                /\ UNCHANGED csVal
    /\ UNCHANGED <<env, ptr, retVal, actNo, chan, length, owned, out>>
    /\ UNCHANGED <<checksum, rdLength, recv, lenVal, bytesRead, srcLen, srcPos>>

\* "Wait for writes to be received", "Return checksum & length to caller"
WrBarrier ==
    /\ pc = "wr_barrier"
    /\ \E ok \in BOOLEAN :
        /\ flAwaitAsyncWrites(ok)
        /\ IF ok
           THEN checksum' = csVal /\ length' = lenVal /\ status' = FLP_SUCCESS
           ELSE status' = FLP_LIBERR /\ UNCHANGED <<checksum, length>>
    /\ pc' = "wr_ret"
    /\ UNCHANGED <<env, ptr, retVal, actNo, chan, owned, out>>
    /\ UNCHANGED <<rdLength, recv, csVal, lenVal, bytesRead, srcLen, srcPos>>

doWrite == WrFread \/ WrSubmit \/ WrBarrier

\* ------------------------------------------------------------------------
\* The transfer engine on its own: doRead for every requested length and
\* doWrite for every size of source file, as parseLine calls them
\* ------------------------------------------------------------------------

EngineChans == {2}

\* parseLine runs while main is neither in the cipher nor in its rail-info loop.
MainIdle == cipher = NONE /\ rail = NONE

\* The state around a call of the engine: no line, nothing printed, no
\* transport call made yet.
EngineFrame ==
    /\ line = <<>> /\ ptr = 0 /\ libc = [einval |-> FALSE, digits |-> 16] /\ enableBenchmarking = FALSE
    /\ seed \in Seeds
    /\ retVal = FLP_SUCCESS /\ actNo = 1 /\ chan \in EngineChans
    /\ status = FLP_SUCCESS /\ checksum = 0 /\ csVal = 0 /\ lenVal = 0
    /\ recv = [off |-> 0, len |-> 0] /\ bytesRead = 0 /\ srcPos = 0
    /\ fileData = <<>>
    /\ dataFromFPGA = <<>> /\ out = <<>>
    /\ calls = <<>> /\ outstanding = <<>> /\ devPos = 0 /\ conduit = 1
    /\ MainIdle

\* status = doRead(handle, (uint8)chan, length, file, &checksum, error);
InitRead ==
    /\ EngineFrame
    /\ pc = "rd_first"
    /\ length \in Lengths(READ_MAX)
    /\ rdLength = length
    /\ srcLen = 0
    /\ file = "wb"
    /\ res = <<"fopen">>

\* status = doWrite(handle, (uint8)chan, file, &length, &checksum, error);
InitWrite ==
    /\ EngineFrame
    /\ pc = "wr_fread"
    /\ length = 1
    /\ rdLength = 0
    /\ srcLen \in Lengths(WRITE_MAX)
    /\ file = "rb"
    /\ res = <<"fopen">>

InitEngine == InitRead \/ InitWrite

NextEngine == doRead \/ doWrite

SpecEngine == InitEngine /\ [][NextEngine]_vars

\* doRead and doWrite run to their return: a call that is made is completed.
SpecEngineFair == SpecEngine /\ WF_vars(NextEngine)

\* ------------------------------------------------------------------------
\* parseLine
\* ------------------------------------------------------------------------

\* One thing printed: ev is "bench" (a throughput line), "dump" (the hex
\* dump, with the bytes dumped) or "diag" (the message and the caret line,
\* with the code and the column); act is the action that was running.
Printed(ev, code, column, bytes) ==
    [ev |-> ev, code |-> code, column |-> column, bytes |-> bytes, act |-> actNo]

\* Mutant: the throughput line is printed whatever the flag says.
Bench_Always(o, n, ck) == Append(o, Printed("bench", ck, 0, <<n>>))

\* if ( enableBenchmarking ) printf("Read ..." / "Wrote ...")
Bench(o, n, ck) == IF enableBenchmarking THEN Append(o, Printed("bench", ck, 0, <<n>>)) ELSE o

\* Mutant: cleanup leaves an open file open.
Released_FileLeftOpen(r, f, fn, d) ==
    r \o <<"bufDestroy">>
      \o (IF fn THEN <<"free fileName">> ELSE <<>>)
      \o (IF d THEN <<"free data">> ELSE <<>>)

\* The events of cleanup: bufDestroy, fclose of an open file, free of the
\* file name and of the inline bytes (free(NULL) does nothing).  f, fn, d
\* say that file, fileName, data are not NULL.
Released(r, f, fn, d) ==
    r \o <<"bufDestroy">>
      \o (IF f THEN <<"fclose">> ELSE <<>>)
      \o (IF fn THEN <<"free fileName">> ELSE <<>>)
      \o (IF d THEN <<"free data">> ELSE <<>>)

\* Mutant: the diagnostic names the start of the line.
Diagnosed_LineStart(o, code, column) ==
    IF code > FLP_LIBERR THEN Append(o, Printed("diag", code, 0, <<>>)) ELSE o

\* The diagnostic of cleanup: printed for every code above FLP_LIBERR.
Diagnosed(o, code, column) ==
    IF code > FLP_LIBERR THEN Append(o, Printed("diag", code, column, <<>>)) ELSE o

\* cleanup: reached with return code `code` and the cursor at q, after the
\* action has printed o, logged r, and left file, fileName, data set (f, fn,
\* d) or NULL.  bufDestroy empties the OutputBuffer.
Cleanup(code, q, o, r, f, fn, d) ==
    /\ pc' = "done"
    /\ retVal' = code
    /\ ptr' = q
    /\ actNo' = actNo
    /\ out' = Diagnosed(o, code, q)
    /\ res' = Released(r, f, fn, d)
    /\ file' = NONE
    /\ dataFromFPGA' = <<>>

\* An action that leaves the cursor one character behind where it stopped.
EndOfAction_SkipsOne(q, o, r, buf) ==
    /\ pc' = "loop"
    /\ ptr' = q + 1
    /\ out' = o
    /\ res' = r
    /\ file' = NONE
    /\ dataFromFPGA' = buf
    /\ UNCHANGED <<retVal, actNo>>

\* An action has been executed: it leaves the cursor at q, has printed o and
\* logged r, the OutputBuffer holds buf, and file, fileName, data are NULL.
EndOfAction(q, o, r, buf) ==
    /\ pc' = "loop"
    /\ ptr' = q
    /\ out' = o
    /\ res' = r
    /\ file' = NONE
    /\ dataFromFPGA' = buf
    /\ UNCHANGED <<retVal, actNo>>

\* Mutant: the hex dump is left out.
Dumped_Never(o, buf) == o

\* dump(0x00000000, dataFromFPGA.data, dataFromFPGA.length);
Dumped(o, buf) == Append(o, Printed("dump", 0, 0, buf))

\* Mutant: whatever follows an action that is not a ';' ends the line.
LoopTest_AnyEnd ==
    /\ pc = "loop"
    /\ IF CharAt(line, ptr) = ";"
       THEN /\ pc' = "top"
            /\ actNo' = actNo + 1
            /\ UNCHANGED <<ptr, retVal, out, res, file, dataFromFPGA>>
       ELSE Cleanup(FLP_SUCCESS, ptr, Dumped(out, dataFromFPGA), res, FALSE, FALSE, FALSE)
    /\ UNCHANGED <<env, chan, length, engine, fileData, transport>>

\* } while ( *ptr == ';' );  then the end-of-line check, the dump, cleanup.
LoopTest ==
    /\ pc = "loop"
    /\ IF CharAt(line, ptr) = ";"
       THEN /\ pc' = "top"
            /\ actNo' = actNo + 1
            /\ UNCHANGED <<ptr, retVal, out, res, file, dataFromFPGA>>
       ELSE IF CharAt(line, ptr) # NUL
       THEN Cleanup(FLP_ILL_CHAR, ptr, out, res, FALSE, FALSE, FALSE)
       ELSE Cleanup(FLP_SUCCESS, ptr, Dumped(out, dataFromFPGA), res, FALSE, FALSE, FALSE)
    /\ UNCHANGED <<env, chan, length, engine, fileData, transport>>

\* bufInitialise(&dataFromFPGA, 1024, 0x00, error); ptr = line;
Begin ==
    /\ pc = "start"
    /\ \E ok \in BOOLEAN :
        IF ok
        THEN /\ pc' = "top"
             /\ ptr' = 0
             /\ UNCHANGED <<retVal, actNo, out, res, file, dataFromFPGA>>
        ELSE Cleanup(FLP_LIBERR, ptr, out, res, FALSE, FALSE, FALSE)
    /\ UNCHANGED <<env, chan, length, engine, fileData, transport>>

\* The action at the cursor, as the switch parses it.
Action == ParseAction(line, ptr, libc)

\* A CHECK_STATUS or FAIL of the parser: to cleanup, nothing executed.
ParseError ==
    /\ pc = "top"
    /\ \E a \in {Action} :
        /\ a.kind = "err"
        /\ Cleanup(a.code, a.ptr, out, res, FALSE, FALSE, FALSE)
    /\ UNCHANGED <<env, chan, length, engine, fileData, transport>>

\* Mutant: the read asks for one chunk at most.
flReadChannel_Capped(ch, n, ok) ==
    /\ calls' = Append(calls, Call("read", ch, ReadChunkSize(n), ok, 0, "dev", devPos, <<>>))
    /\ devPos' = IF ok THEN devPos + ReadChunkSize(n) ELSE devPos
    /\ UNCHANGED <<outstanding, conduit>>

\* flReadChannel(handle, ch, n, buf, error): the next n bytes of the stream.
flReadChannel(ch, n, ok) ==
    /\ calls' = Append(calls, Call("read", ch, n, ok, 0, "dev", devPos, <<>>))
    /\ devPos' = IF ok THEN devPos + n ELSE devPos
    /\ UNCHANGED <<outstanding, conduit>>

\* n bytes of value 0x00: bufAppendConst(&dataFromFPGA, 0x00, length, error)
Zeros(n) == [i \in 1..n |-> 0]

\* The n bytes the OutputBuffer grew by, after flReadChannel.
Filled(ok, n) == IF ok THEN DevBytes(devPos, n) ELSE Zeros(n)

\* A read with no file name: the OutputBuffer grows by length zero bytes,
\* flReadChannel fills them, the throughput line is printed, the status
\* checked.  (The bytes a failed flReadChannel leaves in the buffer are taken
\* to be the zeros it was given.)
ReadMem ==
    /\ pc = "top"
    /\ \E a \in {Action} :
        /\ a.kind = "rmem"
        /\ chan' = a.chan
        /\ length' = a.len
        /\ \E grown \in BOOLEAN :
            IF ~grown
            THEN /\ Cleanup(FLP_LIBERR, a.ptr, out, res, FALSE, FALSE, FALSE)
                 /\ UNCHANGED transport
            ELSE \E ok \in BOOLEAN :
                /\ flReadChannel(a.chan, a.len, ok)
                /\ IF ok
                   THEN EndOfAction(a.ptr,
                                    Bench(out, a.len, calcChecksum(Filled(ok, a.len), a.len)),
                                    res, dataFromFPGA \o Filled(ok, a.len))
                   ELSE Cleanup(FLP_LIBERR, a.ptr,
                                Bench(out, a.len, calcChecksum(Filled(ok, a.len), a.len)),
                                res, FALSE, FALSE, FALSE)
    /\ UNCHANGED <<env, engine, fileData>>

\* A read with a file name: the name is copied, the file opened for writing,
\* and doRead called.
ReadFile ==
    /\ pc = "top"
    /\ \E a \in {Action} :
        /\ a.kind = "rfile"
        /\ \E got \in {"no memory", "no file", "open"} :
            IF got = "no memory"
            THEN /\ Cleanup(FLP_NO_MEMORY, a.at, out, res, FALSE, FALSE, FALSE)
                 /\ UNCHANGED <<chan, length, engine, fileData>>
            ELSE IF a.name = <<>>
            THEN /\ Cleanup(FLP_EMPTY_STRING, a.at, out, Append(res, "malloc fileName"),
                            FALSE, TRUE, FALSE)
                 /\ UNCHANGED <<chan, length, engine, fileData>>
            ELSE IF got = "no file"
            THEN /\ Cleanup(FLP_CANNOT_SAVE, a.ptr, out, Append(res, "malloc fileName"),
                            FALSE, TRUE, FALSE)
                 /\ UNCHANGED <<chan, length, engine, fileData>>
            ELSE /\ pc' = "rd_first"
                 /\ ptr' = a.ptr
                 /\ chan' = a.chan
                 /\ length' = a.len
                 /\ rdLength' = a.len
                 /\ csVal' = 0
                 /\ checksum' = 0
                 /\ file' = "wb"
                 /\ fileData' = <<>>
                 /\ res' = res \o <<"malloc fileName", "fopen", "free fileName">>
                 /\ UNCHANGED <<retVal, actNo, out, dataFromFPGA>>
                 /\ UNCHANGED <<status, recv, lenVal, bytesRead, srcLen, srcPos>>
    /\ UNCHANGED <<env, transport>>

\* Mutant: the status doRead returned is not checked.
ReadStatus_Unchecked(st) == TRUE

\* CHECK_STATUS(status, status, cleanup) passes.
ReadStatus(st) == st = FLP_SUCCESS

\* doRead has returned: the throughput line, the status check, fclose.
ReadFileReturn ==
    /\ pc = "rd_ret"
    /\ line # <<>>
    /\ IF ReadStatus(status)
       THEN EndOfAction(ptr, Bench(out, length, checksum), Append(res, "fclose"), dataFromFPGA)
       ELSE Cleanup(status, ptr, Bench(out, length, checksum), res, TRUE, FALSE, FALSE)
    /\ UNCHANGED <<env, chan, length, engine, fileData, transport>>

\* The sizes a source file may have.
FileSizes == {0, 1, WRITE_MAX, WRITE_MAX + 1}

\* A write with a file name: the name is copied, the file opened for
\* reading, and doWrite called.
WriteFile ==
    /\ pc = "top"
    /\ \E a \in {Action} :
        /\ a.kind = "wfile"
        /\ \E got \in {"no memory", "no file", "open"} :
            IF got = "no memory"
            THEN /\ Cleanup(FLP_NO_MEMORY, a.at, out, res, FALSE, FALSE, FALSE)
                 /\ UNCHANGED <<chan, length, engine>>
            ELSE IF a.name = <<>>
            THEN /\ Cleanup(FLP_EMPTY_STRING, a.at, out, Append(res, "malloc fileName"),
                            FALSE, TRUE, FALSE)
                 /\ UNCHANGED <<chan, length, engine>>
            ELSE IF got = "no file"
            THEN /\ Cleanup(FLP_CANNOT_LOAD, a.ptr, out, Append(res, "malloc fileName"),
                            FALSE, TRUE, FALSE)
                 /\ UNCHANGED <<chan, length, engine>>
            ELSE /\ pc' = "wr_fread"
                 /\ ptr' = a.ptr
                 /\ chan' = a.chan
                 /\ length' = 1
                 /\ csVal' = 0
                 /\ lenVal' = 0
                 /\ checksum' = 0
                 /\ srcLen' \in FileSizes
                 /\ srcPos' = 0
                 /\ file' = "rb"
                 /\ res' = res \o <<"malloc fileName", "fopen", "free fileName">>
                 /\ UNCHANGED <<retVal, actNo, out, dataFromFPGA>>
                 /\ UNCHANGED <<status, rdLength, recv, bytesRead>>
    /\ UNCHANGED <<env, fileData, transport>>

\* doWrite has returned: the throughput line, the status check, fclose.
WriteFileReturn ==
    /\ pc = "wr_ret"
    /\ line # <<>>
    /\ IF status = FLP_SUCCESS
       THEN EndOfAction(ptr, Bench(out, length, checksum), Append(res, "fclose"), dataFromFPGA)
       ELSE Cleanup(status, ptr, Bench(out, length, checksum), res, TRUE, FALSE, FALSE)
    /\ UNCHANGED <<env, chan, length, engine, fileData, transport>>

\* flWriteChannel(handle, ch, n, data, error)
flWriteChannel(ch, n, bytes, ok) ==
    /\ calls' = Append(calls, Call("write", ch, n, ok, 0, "inline", 0, bytes))
    /\ UNCHANGED <<outstanding, devPos, conduit>>

\* A write of inline hex digits: the bytes are decoded into a malloc'ed
\* buffer that is not checked for NULL (a failed malloc ends the program in
\* the first getHexByte), written with flWriteChannel, the throughput line
\* is printed, the status checked, the buffer freed.
WriteHex ==
    /\ pc = "top"
    /\ \E a \in {Action} :
        /\ a.kind = "whex"
        /\ chan' = a.chan
        /\ length' = a.len
        /\ \E got \in BOOLEAN :
            IF ~got
            THEN /\ pc' = "crash"
                 /\ UNCHANGED <<ptr, retVal, actNo, out, res, file, dataFromFPGA, transport>>
            ELSE \E ok \in BOOLEAN :
                /\ flWriteChannel(a.chan, a.len, a.bytes, ok)
                /\ IF ok
                   THEN EndOfAction(a.ptr, Bench(out, a.len, calcChecksum(a.bytes, a.len)),
                                    res \o <<"malloc data", "free data">>, dataFromFPGA)
                   ELSE Cleanup(FLP_LIBERR, a.ptr, Bench(out, a.len, calcChecksum(a.bytes, a.len)),
                                Append(res, "malloc data"), FALSE, FALSE, TRUE)
    /\ UNCHANGED <<env, engine, fileData>>

\* Mutant: the conduit is switched before the actions that precede it on
\* the line have made their calls.
flSelectConduit_First(c, ok) ==
    /\ calls' = <<Call("select", c, 0, ok, 0, "none", 0, <<>>)>> \o calls
    /\ conduit' = IF ok THEN c ELSE conduit
    /\ UNCHANGED <<outstanding, devPos>>

\* flSelectConduit(handle, (uint8)conduit, error)
flSelectConduit(c, ok) ==
    /\ calls' = Append(calls, Call("select", c, 0, ok, 0, "none", 0, <<>>))
    /\ conduit' = IF ok THEN c ELSE conduit
    /\ UNCHANGED <<outstanding, devPos>>

\* A conduit selection.
SelectConduit ==
    /\ pc = "top"
    /\ \E a \in {Action} :
        /\ a.kind = "sel"
        /\ \E ok \in BOOLEAN :
            /\ flSelectConduit(a.chan, ok)
            /\ IF ok
               THEN EndOfAction(a.ptr, out, res, dataFromFPGA)
               ELSE Cleanup(FLP_LIBERR, a.ptr, out, res, FALSE, FALSE, FALSE)
    /\ UNCHANGED <<env, chan, length, engine, fileData>>

\* ------------------------------------------------------------------------
\* The lines parseLine is given
\* ------------------------------------------------------------------------

Alphabet == {"r", "w", "+", ";", " ", "\"", "1", "f", "z"}

\* Every line of at most n characters over Alphabet.
RECURSIVE LinesUpTo(_)
LinesUpTo(n) ==
    IF n = 0 THEN {<<>>}
    ELSE LET shorter == LinesUpTo(n - 1)
         IN  shorter \cup {Append(l, c) : l \in shorter, c \in Alphabet}

\* Longer lines: those the specification names, and lines that reach every
\* kind of action, several actions on a line, and every error.
Examples == {
    <<"r", "2", "a">>,
    <<"r", "2", " ", "a">>,
    <<"r", "1", " ", "1", "0", "0", "0", "1">>,
    <<"r", "1", " ", "5", ";", "+", "2">>,
    <<"r", "1", " ", "5", ";", "+", "2", "z", "z">>,
    <<"r", "2", "0", "0">>,
    <<"r", "1", " ", "2", ";", "r", "2", "0", "0">>,
    <<"w", "1", " ", "4", "8", "6", "5", "6">>,
    <<"w", "5", " ", "\"", "f", "\"">>,
    <<"w", "5", " ", "\"", "f", "\"", "z">>,
    <<"w", "1", " ", "0", "0", "z", "z">>,
    <<"+", "1", "0", "0", "z">>,
    <<"+", "f", "f", " ", "z">>,
    <<"r", "3", " ", "2", ";", "r", "1", " ", "1", "0", "0", "0", "1", " ", "\"", "f", "\"">>,
    <<"r", "1", " ", "5", " ", "'", "f", "'", "z">>,
    <<"r", "1", " ", "2", " ", "\"", "f", "\"", ";", "+", "3">>,
    <<"r", "1", " ", "2", " ", "\"", "f">>,
    <<"r", "1", " ", "2", " ", "'", "'">>,
    <<"w", "7", "F", " ", "4", "a", "4", "B", ";", "r", "3", " ", "2", ";", "+", "f", "f">>,
    <<"w", "2", " ", "'", "f", "'", ";", "r", "0">>,
    <<"r", "1", " ", "2", ";", "r", "2", " ", "3">>,
    <<"+", "2", ";", ";", "r", "1", ";", "w", "1", " ", "z">>,
    <<"r", "-", "1">>,
    <<"r", "0", "x", "1", "f">>,
    <<"r", "1", "1", "1", "1", "1", "1", "1", "1", "1", "1", "1", "1", "1", "1", "1", "1", "1">>,
    <<"r", "1", "0", "0", "0", "0", "0", "0", "0", "1">>,
    <<"r", "-", "1", "0", "0", "0", "0", "0", "0", "0", "0">>,
    <<"r", "1", " ", "1", "0", "0", "0", "0", "0", "0", "0", "2">>,
    <<"w", "1", "0", "0", "0", "0", "0", "0", "0", "1", " ", "0", "0">>,
    <<"+", "1", "0", "0", "0", "0", "0", "0", "0", "1", "z">>
}

\* The bytes and the byte sequences whose hex encodings are written.
ByteValues == {0, 31, 165, 255}

RECURSIVE ByteSeqs(_)
ByteSeqs(n) ==
    IF n = 0 THEN {<<>>}
    ELSE LET shorter == ByteSeqs(n - 1)
         IN  shorter \cup {Append(b, v) : b \in shorter, v \in ByteValues}

\* The hex encoding of a byte sequence, two digits a byte, the most
\* significant first, in upper or in lower case.
HexEncode(bytes, upper) ==
    [j \in 1..(2 * Len(bytes)) |->
        (DecDigits \o (IF upper THEN UpDigits ELSE LowDigits))
            [1 + (IF j % 2 = 1 THEN bytes[(j + 1) \div 2] \div 16 ELSE bytes[j \div 2] % 16)]]

\* The lines `w1 <hex>` for the encodings of the sequences of at most
\* MaxBytes bytes.
EncodedWrites ==
    {<<"w", "1", " ">> \o HexEncode(b, u) : b \in ByteSeqs(MaxBytes) \ {<<>>}, u \in BOOLEAN}

Lines == LinesUpTo(MaxLineLen) \cup Examples \cup EncodedWrites

\* The C libraries a line is run with.  The width of an unsigned long shows
\* only in a number of eight hex digits or more, so a shorter line is run
\* with 64 bits alone.
Libcs(l) ==
    [einval : BOOLEAN, digits : IF Len(l) > 8 THEN UlongDigits ELSE {16}]

\* ------------------------------------------------------------------------
\* parseLine(handle, line, error)
\* ------------------------------------------------------------------------

Init ==
    /\ line \in Lines
    /\ libc \in Libcs(line)
    /\ enableBenchmarking \in BOOLEAN
    /\ seed \in Seeds
    /\ pc = "start"
    /\ ptr = 0
    /\ retVal = FLP_SUCCESS /\ actNo = 1 /\ chan = 0 /\ length = 1
    /\ status = FLP_SUCCESS /\ checksum = 0 /\ rdLength = 0 /\ csVal = 0 /\ lenVal = 0
    /\ recv = [off |-> 0, len |-> 0] /\ bytesRead = 0 /\ srcLen = 0 /\ srcPos = 0
    /\ file = NONE /\ fileData = <<>>
    /\ dataFromFPGA = <<>> /\ out = <<>> /\ res = <<>>
    /\ calls = <<>> /\ outstanding = <<>> /\ devPos = 0 /\ conduit = 1
    /\ MainIdle

Next ==
    \/ Begin
    \/ ParseError
    \/ ReadMem
    \/ ReadFile
    \/ doRead
    \/ ReadFileReturn
    \/ WriteFile
    \/ doWrite
    \/ WriteFileReturn
    \/ WriteHex
    \/ SelectConduit
    \/ LoopTest

Spec == Init /\ [][Next]_vars

\* ------------------------------------------------------------------------
\* Reading the call trace
\* ------------------------------------------------------------------------

ReadPcs == {"rd_first", "rd_submit", "rd_await", "rd_write", "rd_last", "rd_writelast", "rd_ret"}

WritePcs == {"wr_fread", "wr_submit", "wr_barrier", "wr_ret"}

CallsOf(op) == SelectSeq(calls, LAMBDA c : c.op = op)

AllOk(cs) == \A i \in 1..Len(cs) : cs[i].ok

\* The calls as (function, chunk) pairs.
OpTrace == [i \in 1..Len(calls) |-> <<calls[i].op, calls[i].id>>]

Last(s) == s[Len(s)]

IsPrefix(s, t) == Len(s) <= Len(t) /\ \A i \in 1..Len(s) : s[i] = t[i]

RECURSIVE SumLen(_)
SumLen(cs) == IF cs = <<>> THEN 0 ELSE Head(cs).len + SumLen(Tail(cs))

\* The chunks a transfer of n bytes needs when a chunk holds at most max.
CeilDiv(n, max) == (n + max - 1) \div max

NumReadChunks(n) == IF n = 0 THEN 1 ELSE CeilDiv(n, READ_MAX)

\* submit(1), then submit(N), await(N-1) for N = 2..k, then await(k).
PipelineOrder(k) ==
    [i \in 1..(2 * k) |->
        IF i = 1 THEN <<"submit", 1>>
        ELSE IF i = 2 * k THEN <<"await", k>>
        ELSE IF i % 2 = 0 THEN <<"submit", (i \div 2) + 1>>
        ELSE <<"await", (i - 1) \div 2>>]

ReadReturnedOk == pc = "rd_ret" /\ status = FLP_SUCCESS

WriteReturnedOk == pc = "wr_ret" /\ status = FLP_SUCCESS

Freads == Len(SelectSeq(res, LAMBDA e : e = "fread"))

\* ------------------------------------------------------------------------
\* C1..C6: the transfer engine
\* ------------------------------------------------------------------------

\* C1 as stated: during a doRead the transport never has more than one
\* submitted-but-not-yet-awaited read chunk outstanding.
C1_DepthOne == pc \in ReadPcs => Len(outstanding) <= 1

\* C1, amended: during a doRead the transport never has more than two
\* submitted-but-not-yet-awaited read chunks outstanding, and never more
\* than one while the host writes and checksums a chunk it has awaited; two
\* are outstanding exactly between the submit of chunk N and the await of
\* chunk N-1.
C1_DepthTwo ==
    pc \in ReadPcs =>
        /\ Len(outstanding) <= 2
        /\ pc \in {"rd_write", "rd_writelast"} => Len(outstanding) <= 1
        /\ Len(outstanding) = 2 => pc \in {"rd_await", "rd_ret"}

C1_Witness == pc = "rd_await" /\ Len(outstanding) = 2 /\ AllOk(calls)

\* C2: a doRead of k >= 1 chunks that meets no failure calls the transport
\* in the order submit(1), submit(N) await(N-1) for N = 2..k, await(k); each
\* await returns the oldest chunk not yet awaited; on return there are as
\* many awaits as submits.  While nothing has failed the calls made so far
\* are a prefix of that order.
C2_PipelineOrder ==
    pc \in ReadPcs =>
        /\ AllOk(calls) => IsPrefix(OpTrace, PipelineOrder(NumReadChunks(length)))
        /\ ReadReturnedOk =>
            /\ OpTrace = PipelineOrder(NumReadChunks(length))
            /\ Len(CallsOf("await")) = Len(CallsOf("submit"))
            /\ outstanding = <<>>

C2_Witness == ReadReturnedOk /\ NumReadChunks(length) = 3 /\ Len(calls) = 6

\* C3: the chunk sizes doRead submits: the first is min(L, 65536), each is at
\* most 65536, each but the last is exactly 65536, and on a successful
\* return they add up to L; for L = 0 exactly one chunk, of size zero, is
\* submitted and awaited.
C3_ChunkSizes ==
    pc \in ReadPcs =>
        LET subs == CallsOf("submit")
        IN  /\ \A i \in 1..Len(subs) : subs[i].len <= READ_MAX
            /\ \A i \in 1..(Len(subs) - 1) : subs[i].len = READ_MAX
            /\ subs # <<>> => subs[1].len = (IF length < READ_MAX THEN length ELSE READ_MAX)
            /\ ReadReturnedOk => SumLen(subs) = length
            /\ (ReadReturnedOk /\ length = 0) =>
                /\ Len(subs) = 1 /\ subs[1].len = 0
                /\ Len(CallsOf("await")) = 1 /\ CallsOf("await")[1].len = 0

C3_Witness ==
    /\ ReadReturnedOk /\ length = READ_MAX + 1
    /\ Len(CallsOf("submit")) = 2 /\ CallsOf("submit")[2].len = 1

\* The chunks of cs lie one after the other from offset 0 and hold n bytes.
RECURSIVE Tiles(_, _, _)
Tiles(cs, from, n) ==
    IF cs = <<>> THEN from = n
    ELSE Head(cs).off = from /\ Tiles(Tail(cs), from + Head(cs).len, n)

\* C4: the checksum a successful doRead or doWrite returns is the sum modulo
\* 65536 of exactly the bytes transferred, in transfer order: the chunks
\* transferred lie end to end over the whole byte sequence, and the checksum
\* is calcChecksum of that sequence taken as one piece, whatever the chunks.
C4_ChecksumOfWhole ==
    /\ ReadReturnedOk =>
        /\ Tiles(CallsOf("await"), 0, length)
        /\ checksum = calcChecksum(DevBytes(0, length), length)
    /\ WriteReturnedOk =>
        /\ Tiles(CallsOf("writeAsync"), 0, srcLen)
        /\ checksum = calcChecksum(FileBytes(0, srcLen), srcLen)

C4_Witness == ReadReturnedOk /\ Len(CallsOf("await")) >= 2 /\ seed = 0 /\ checksum # 0

\* C5 (counts): for a source file of L bytes doWrite makes at most
\* floor(L / WRITE_MAX) + 1 file reads and submits no empty write; when the
\* transport does not fail it returns after exactly floor(L / WRITE_MAX) + 1
\* file reads and ceil(L / WRITE_MAX) asynchronous writes, reporting length L
\* (and for an empty file length 0, checksum 0x0000, with no write submitted).
C5_Counts ==
    pc \in WritePcs =>
        LET wrs == CallsOf("writeAsync")
        IN  /\ Freads <= (srcLen \div WRITE_MAX) + 1
            /\ \A i \in 1..Len(wrs) : wrs[i].len > 0 /\ wrs[i].len <= WRITE_MAX
            /\ WriteReturnedOk =>
                /\ Freads = (srcLen \div WRITE_MAX) + 1
                /\ Len(wrs) = CeilDiv(srcLen, WRITE_MAX)
                /\ length = srcLen
                /\ srcLen = 0 => (checksum = 0 /\ wrs = <<>>)

\* C5: doWrite terminates for a source file of any length, also an empty one
\* and one whose length is an exact multiple of WRITE_MAX, with the counts
\* above.
C5_WriteTerminates == []C5_Counts /\ ((pc = "wr_fread") ~> (pc = "wr_ret"))

C5_Witness ==
    /\ WriteReturnedOk /\ srcLen = 2 * WRITE_MAX
    /\ Freads = 3 /\ Len(CallsOf("writeAsync")) = 2

\* C6: doWrite awaits no single chunk; the barrier is called at most once,
\* after the last chunk submission and only when every submission succeeded,
\* and exactly once when doWrite returns with every submission successful; a
\* failed submission is the last transport call, with no further file read.
C6_Barrier ==
    pc \in WritePcs =>
        LET wrs == CallsOf("writeAsync")
            bar == CallsOf("awaitWrites")
        IN  /\ \A i \in 1..Len(calls) : calls[i].op \in {"writeAsync", "awaitWrites"}
            /\ Len(bar) <= 1
            /\ bar # <<>> => (Last(calls).op = "awaitWrites" /\ AllOk(wrs))
            /\ (pc = "wr_ret" /\ AllOk(wrs)) => Len(bar) = 1
            /\ \A i \in 1..Len(calls) :
                (calls[i].op = "writeAsync" /\ ~calls[i].ok) =>
                    /\ i = Len(calls)
                    /\ pc = "wr_ret"
                    /\ Freads = Len(wrs)

C6_Witness ==
    /\ pc = "wr_ret" /\ Len(calls) = 3 /\ AllOk(calls)
    /\ calls[1].op = "writeAsync" /\ calls[2].op = "writeAsync"
    /\ calls[3].op = "awaitWrites"

\* ------------------------------------------------------------------------
\* Reading what parseLine did
\* ------------------------------------------------------------------------

Dumps == SelectSeq(out, LAMBDA e : e.ev = "dump")

Returned(code) == pc = "done" /\ retVal = code

\* The bytes the successful synchronous reads delivered, in call order.
RECURSIVE Received(_)
Received(cs) ==
    IF cs = <<>> THEN <<>>
    ELSE IF Head(cs).op = "read" /\ Head(cs).ok
    THEN DevBytes(Head(cs).off, Head(cs).len) \o Received(Tail(cs))
    ELSE Received(Tail(cs))

\* The actions of the line from cursor p on, left to right, as the text
\* reads: up to the first one that does not parse, or the last one.
RECURSIVE Plan(_, _, _)
Plan(l, p, lc) ==
    LET a == ParseAction(l, p, lc)
    IN  IF a.kind # "err" /\ CharAt(l, a.ptr) = ";"
        THEN <<a>> \o Plan(l, a.ptr, lc)
        ELSE <<a>>

\* The transport operations an action of each kind makes.
OpsOf(kind) ==
    CASE kind = "rmem" -> {"read"}
      [] kind = "rfile" -> {"submit", "await"}
      [] kind = "wfile" -> {"writeAsync", "awaitWrites"}
      [] kind = "whex" -> {"write"}
      [] kind = "sel" -> {"select"}
      [] OTHER -> {}

\* A failure has happened: a transport call failed, doRead or doWrite is
\* returning a failure, or parseLine has returned one.
Failing ==
    \/ ~AllOk(calls)
    \/ pc \in {"rd_ret", "wr_ret"} /\ status # FLP_SUCCESS
    \/ pc = "done" /\ retVal # FLP_SUCCESS

\* The action at the cursor does not parse.
ParseFails == pc = "top" /\ Action.kind = "err"

C7_FailedCallIsLast ==
    /\ \A i \in 1..(Len(calls) - 1) : calls[i].ok
    /\ (pc = "done" /\ ~AllOk(calls)) => retVal = FLP_LIBERR
    /\ Returned(FLP_SUCCESS) => (AllOk(calls) /\ ptr = Len(line))
    /\ Failing => pc \in {"rd_ret", "wr_ret", "done"}

\* C7: within one parseLine call, after the first failure of any kind no
\* further transport call is made.  A failed transport call is the last call
\* of the line; once a failure has happened, or the action at the cursor
\* does not parse, the next step makes no call and is parseLine's return
\* with a code other than success; the step that returns a failure makes no
\* call but, at most, the call that failed; and parseLine returns success
\* only with every call successful and the cursor at the end of the line.
C7_AbortOnFailure ==
    /\ []C7_FailedCallIsLast
    /\ [][(Failing \/ ParseFails) =>
            (calls' = calls /\ pc' = "done" /\ retVal' # FLP_SUCCESS)]_vars
    /\ [][(pc' = "done" /\ retVal' # FLP_SUCCESS) =>
            \/ calls' = calls
            \/ (Len(calls') = Len(calls) + 1 /\ IsPrefix(calls, calls') /\ ~Last(calls').ok)]_vars

\* A transport call fails in the first of several actions: parseLine returns
\* LibErr with the rest of the line not executed.
C7_Witness ==
    /\ Returned(FLP_LIBERR) /\ calls # <<>> /\ ~Last(calls).ok
    /\ CharAt(line, ptr) = ";" /\ Len(Plan(line, ptr, libc)) >= 1
    /\ Plan(line, ptr, libc)[1].kind # "err"

\* C8: the hex dump of the OutputBuffer is emitted exactly once when
\* parseLine succeeds for the whole line, as the last thing printed and with
\* the bytes of the line's memory reads, and is never emitted before that or
\* when parseLine returns a failure, whatever earlier reads delivered.
C8_DumpOnSuccess ==
    /\ Len(Dumps) = (IF Returned(FLP_SUCCESS) THEN 1 ELSE 0)
    /\ Returned(FLP_SUCCESS) =>
        /\ Last(out).ev = "dump"
        /\ Last(out).bytes = Received(calls)

\* A line of two memory reads succeeds and dumps their five bytes.
C8_Witness ==
    /\ Returned(FLP_SUCCESS) /\ Len(Dumps) = 1 /\ Len(Dumps[1].bytes) = 5
    /\ Len(CallsOf("read")) = 2

\* The line  r1 5;+2
ReadThenSelect == <<"r", "1", " ", "5", ";", "+", "2">>

C9_InLineOrder ==
    LET plan == Plan(line, 0, libc)
    IN  /\ \A i \in 1..Len(calls) :
            /\ calls[i].act \in 1..Len(plan)
            /\ calls[i].op \in OpsOf(plan[calls[i].act].kind)
            /\ calls[i].arg = plan[calls[i].act].chan
            /\ i > 1 => calls[i - 1].act <= calls[i].act
        /\ Returned(FLP_SUCCESS) =>
            \A k \in 1..Len(plan) : \E i \in 1..Len(calls) : calls[i].act = k
        /\ (line = ReadThenSelect /\ Returned(FLP_SUCCESS)) =>
            /\ [i \in 1..Len(calls) |-> <<calls[i].op, calls[i].arg, calls[i].len>>]
                    = << <<"read", 1, 5>>, <<"select", 2, 0>> >>
            /\ conduit = 2

\* C9: transport calls are issued in the left-to-right order of the actions
\* on the line.  Every call belongs to an action of the line and is of that
\* action's kind and channel or conduit, the calls of action k all come
\* before those of action k+1, a line that succeeds has executed every one
\* of its actions, and  r1 5;+2  reads 5 bytes from channel 1 and then
\* selects conduit 2.  Nothing is undone: the calls made stay made, and the
\* conduit changes only by a successful select-conduit call.
C9_LeftToRight ==
    /\ []C9_InLineOrder
    /\ [][/\ IsPrefix(calls, calls')
          /\ conduit' # conduit =>
                (Last(calls').op = "select" /\ Last(calls').ok /\ Len(calls') > Len(calls))]_vars

\* r1 5;+2 has done both its actions.
C9_Witness ==
    /\ line = ReadThenSelect /\ Returned(FLP_SUCCESS)
    /\ Len(calls) = 2 /\ calls[1].act = 1 /\ calls[2].act = 2 /\ conduit = 2

\* The action at the cursor is a '+' at offset q - 1 whose hex digits run
\* from q to e.
ConduitDigits(q, e) == pc = "top" /\ CharAt(line, q - 1) = "+" /\ e > q

\* parseLine returns IllegalChar with the cursor and the caret at column
\* col, having made no call and left the conduit alone.
IllegalCharAt(col) ==
    /\ pc' = "done" /\ retVal' = FLP_ILL_CHAR /\ ptr' = col
    /\ Last(out').ev = "diag" /\ Last(out').code = FLP_ILL_CHAR /\ Last(out').column = col
    /\ calls' = calls /\ conduit' = conduit

\* C10 as stated: a SelectConduit action whose hex digits are followed by
\* any character other than end-of-line or ';' fails with IllegalChar at
\* that character, without a select-conduit call.
C10_AsStated ==
    [][\A q \in {SkipSemis(line, ptr) + 1} : \A e \in {HexRunEnd(line, q)} :
        (ConduitDigits(q, e) /\ CharAt(line, e) \notin {NUL, ";"}) => IllegalCharAt(e)]_vars

\* C10, amended: a SelectConduit action whose number, as strtoul converts
\* it in base 16 without error and the code narrows it to 32 bits, is at
\* most 255 and is followed by any character other than end-of-line or ';'
\* fails with IllegalChar with the column at that character and without a
\* select-conduit call; a narrowed number above 255 fails with ConduitRange
\* at the column after the '+' instead, whatever follows it, also without a
\* select-conduit call.
C10_IllegalCharAfterConduit ==
    [][\A q \in {SkipSemis(line, ptr) + 1} : \A s \in {strtoul(line, q, libc)} :
        (ConduitDigits(q, s.end) /\ s.errno = "0" /\ CharAt(line, s.end) \notin {NUL, ";"}) =>
            IF Exceeds(Uint32(s.ul), 255)
            THEN /\ pc' = "done" /\ retVal' = FLP_CONDUIT_RANGE /\ ptr' = q
                 /\ calls' = calls /\ conduit' = conduit
            ELSE IllegalCharAt(s.end)]_vars

\* r1 5;+2zz has failed at the first z, after the read, the conduit as it was.
C10_Witness ==
    /\ line = <<"r", "1", " ", "5", ";", "+", "2", "z", "z">>
    /\ Returned(FLP_ILL_CHAR) /\ ptr = 7 /\ Last(out).column = 7
    /\ Len(calls) = 1 /\ calls[1].op = "read" /\ calls[1].ok /\ conduit = 1

\* ------------------------------------------------------------------------
\* C11: channels and conduits are range-checked before any call
\* ------------------------------------------------------------------------

\* The action at the cursor starts with the letter c at offset q - 1, and
\* strtoul converts the digits after it, without overflow, to the number s.ul.
NumberAfter(c, q, s) ==
    pc = "top" /\ CharAt(line, q - 1) = c /\ s.end > q /\ s.errno = "0"

\* parseLine returns the failure code, having made no call for the action.
FailsWithoutCall(code) ==
    pc' = "done" /\ retVal' = code /\ calls' = calls /\ conduit' = conduit

\* C11 (second part) as stated, for the numbers an unsigned long holds: a
\* Read or a Write whose parsed channel exceeds 127 fails with ChanRange,
\* and a SelectConduit whose parsed value exceeds 255 fails with
\* ConduitRange, in both cases before any transport call for that action.
C11_RangeChecked ==
    [][\A q \in {SkipSemis(line, ptr) + 1} : \A s \in {strtoul(line, q, libc)} :
        /\ (NumberAfter("r", q, s) /\ Exceeds(s.ul, 127)) => FailsWithoutCall(FLP_CHAN_RANGE)
        /\ (NumberAfter("w", q, s) /\ Exceeds(s.ul, 127)) => FailsWithoutCall(FLP_CHAN_RANGE)
        /\ (NumberAfter("+", q, s) /\ Exceeds(s.ul, 255)) =>
               FailsWithoutCall(FLP_CONDUIT_RANGE)]_vars

\* C11 (first part): every read or write call carries a channel in 0..127
\* and every select-conduit call a conduit in 0..255.
C11_CallsInRange ==
    \A i \in 1..Len(calls) :
        IF calls[i].op = "select" THEN calls[i].arg \in 0..255 ELSE calls[i].arg \in 0..127

\* ------------------------------------------------------------------------
\* C12: the column of the diagnostic
\* ------------------------------------------------------------------------

Diags == SelectSeq(out, LAMBDA e : e.ev = "diag")

\* C12: when parseLine has returned a failure other than a library error,
\* the last thing printed is the one diagnostic, it carries the code returned
\* and its column (under which the caret is drawn) is the offset of the
\* cursor from the start of the line; when it has returned a library error
\* or success, no diagnostic has been printed.
C12_ColumnIsCursor ==
    pc = "done" =>
        IF retVal > FLP_LIBERR
        THEN /\ Len(Diags) = 1 /\ Last(out).ev = "diag"
             /\ Last(out).code = retVal /\ Last(out).column = ptr
        ELSE Diags = <<>>

\* r200 has failed with ChanRange at column 1.
C12_Witness ==
    /\ line = <<"r", "2", "0", "0">> /\ Returned(FLP_CHAN_RANGE)
    /\ ptr = 1 /\ Last(out).column = 1 /\ calls = <<>>

\* A select-conduit call has failed in the library, after a read, and no
\* diagnostic was printed.
C12_LibraryError ==
    /\ line = <<"r", "1", " ", "5", ";", "+", "2">> /\ Returned(FLP_LIBERR)
    /\ Diags = <<>> /\ Len(calls) = 2

\* ------------------------------------------------------------------------
\* C13: a number without digits
\* ------------------------------------------------------------------------

\* The action at the cursor starts with the letter c at offset q - 1.
LetterAt(c, q) == pc = "top" /\ CharAt(line, q - 1) = c

\* C13 as stated: a Read, Write or SelectConduit action whose command letter
\* is not followed by a hex digit, and a Read whose channel (at most 127) is
\* followed by a space and then no hex digit, fails with BadHex and makes no
\* transport call.
C13_NoDigitsIsBadHex ==
    [][\A q \in {SkipSemis(line, ptr) + 1} : \A s \in {strtoul(line, q, libc)} :
        /\ ((LetterAt("r", q) \/ LetterAt("w", q) \/ LetterAt("+", q))
              /\ ~isHexDigit(CharAt(line, q))) => FailsWithoutCall(FLP_BAD_HEX)
        /\ (LetterAt("r", q) /\ s.end = HexRunEnd(line, q) /\ s.end > q
              /\ ~Exceeds(s.ul, 127) /\ CharAt(line, s.end) = " "
              /\ ~isHexDigit(CharAt(line, s.end + 1))) => FailsWithoutCall(FLP_BAD_HEX)]_vars

\* ------------------------------------------------------------------------
\* C14: the read of ten bytes from channel 2
\* ------------------------------------------------------------------------

\* The bytes 0x00 .. 0x09.
ZeroToNine == [i \in 1..10 |-> i - 1]

\* At the end of the first action, one successful memory read of ten bytes
\* on channel 2 has been made, the OutputBuffer holds 00 01 .. 09, and the
\* throughput line, where it is printed, gives the checksum 0x002D.
TenBytesRead ==
    /\ Len(calls) = 1 /\ calls[1].op = "read" /\ calls[1].arg = 2 /\ calls[1].len = 10
    /\ dataFromFPGA = ZeroToNine
    /\ enableBenchmarking => (Last(out).ev = "bench" /\ Last(out).code = 45)

\* C14 as stated: the line r2a issues a memory read of length 0xA on channel
\* 2; when the transport returns the bytes 0x00..0x09, the OutputBuffer is
\* 00 01 .. 09 and the checksum is 0x002D.
C14_AsStated ==
    (line = <<"r", "2", "a">> /\ seed = 0 /\ pc = "loop") => TenBytesRead

\* C14, amended: the line `r2 a` issues a memory read of length 0xA on
\* channel 2; when the transport returns the bytes 0x00..0x09, the
\* OutputBuffer is 00 01 .. 09 and the checksum is 0x002D.
C14_ReadTenBytes ==
    (line = <<"r", "2", " ", "a">> /\ seed = 0 /\ pc = "loop") => TenBytesRead

\* `r2 a` has read its ten bytes and printed the throughput line.
C14_Witness ==
    /\ line = <<"r", "2", " ", "a">> /\ seed = 0 /\ pc = "loop" /\ enableBenchmarking
    /\ calls[1].ok /\ dataFromFPGA = ZeroToNine /\ Last(out).code = 45

\* ------------------------------------------------------------------------
\* C15: the lines parseLine accepts and the command grammar
\* ------------------------------------------------------------------------

\* The grammar of the specification, as a recogniser: each operator gives
\* the offset just after the phrase that starts at p, or -1 when there is
\* none.
\*   quoted ::= '"' chars '"' | "'" chars "'"
GrammarQuoted(l, p) ==
    IF CharAt(l, p) \in {"\"", "'"} /\ CharAt(l, ScanQuote(l, p + 1, CharAt(l, p))) # NUL
    THEN ScanQuote(l, p + 1, CharAt(l, p)) + 1
    ELSE -1

\*   hex ::= one-or-more [0-9a-fA-F]
GrammarHex(l, p) == IF isHexDigit(CharAt(l, p)) THEN HexRunEnd(l, p) ELSE -1

\*   hexrun ::= even-length run of [0-9a-fA-F]
GrammarHexRun(l, p) ==
    IF isHexDigit(CharAt(l, p)) /\ (HexRunEnd(l, p) - p) % 2 = 0 THEN HexRunEnd(l, p) ELSE -1

\*   readAct ::= 'r' hex (' ' hex (' ' quoted)? )?     (e is the end of a hex)
GrammarReadName(l, e) == IF e >= 0 /\ CharAt(l, e) = " " THEN GrammarQuoted(l, e + 1) ELSE e

GrammarReadCount(l, e) ==
    IF e >= 0 /\ CharAt(l, e) = " " THEN GrammarReadName(l, GrammarHex(l, e + 1)) ELSE e

\*   writeAct ::= 'w' hex ' ' ( quoted | hexrun )
GrammarWriteData(l, e) ==
    IF e < 0 \/ CharAt(l, e) # " " THEN -1
    ELSE IF CharAt(l, e + 1) \in {"\"", "'"} THEN GrammarQuoted(l, e + 1)
    ELSE GrammarHexRun(l, e + 1)

\*   action ::= readAct | writeAct | conduitAct;  conduitAct ::= '+' hex
GrammarAction(l, p) ==
    CASE CharAt(l, p) = "r" -> GrammarReadCount(l, GrammarHex(l, p + 1))
      [] CharAt(l, p) = "w" -> GrammarWriteData(l, GrammarHex(l, p + 1))
      [] CharAt(l, p) = "+" -> GrammarHex(l, p + 1)
      [] OTHER -> -1

\*   line ::= action (';' action)*
RECURSIVE GrammarLine(_, _)
GrammarLine(l, p) ==
    IF GrammarAction(l, p) < 0 THEN FALSE
    ELSE IF CharAt(l, GrammarAction(l, p)) = NUL THEN TRUE
    ELSE IF CharAt(l, GrammarAction(l, p)) = ";" THEN GrammarLine(l, GrammarAction(l, p) + 1)
    ELSE FALSE

\* No call has failed and no file or memory was refused: parseLine has
\* returned success or a parse error.
NothingFailed ==
    pc = "done" /\ retVal \notin {FLP_LIBERR, FLP_NO_MEMORY, FLP_CANNOT_LOAD, FLP_CANNOT_SAVE}

\* C15 as stated: with a transport that never fails and files that always
\* open, parseLine returns success if and only if the line matches the
\* command grammar.
C15_AcceptsGrammar ==
    NothingFailed => (retVal = FLP_SUCCESS <=> GrammarLine(line, 0))

\* C15 for the lines on which the grammar and the parsing rules of the
\* specification cannot differ: no ';' at the start of the line or after
\* another ';', no failure for a number out of range or an empty file name,
\* and no number too long for an unsigned long.
C15_AcceptsGrammarInRange ==
    (/\ NothingFailed
     /\ retVal \notin {FLP_CHAN_RANGE, FLP_CONDUIT_RANGE, FLP_EMPTY_STRING}
     /\ Len(line) <= 8
     /\ \A i \in 1..Len(line) : line[i] = ";" => (i > 1 /\ line[i - 1] # ";"))
        => (retVal = FLP_SUCCESS <=> GrammarLine(line, 0))

\* ------------------------------------------------------------------------
\* C16: an odd number of inline hex digits
\* ------------------------------------------------------------------------

\* The action at the cursor is a Write: the letter w at offset q - 1, the
\* channel s (at most 127), a space, and then a run of n >= 1 hex digits.
InlineWrite(q, s, n) ==
    /\ LetterAt("w", q) /\ s.errno = "0" /\ s.end > q /\ ~Exceeds(s.ul, 127)
    /\ CharAt(line, s.end) = " "
    /\ n >= 1 /\ HexRunEnd(line, s.end + 1) = s.end + 1 + n

\* C16: a Write whose inline hex run has odd length fails with OddDigits,
\* the column at the first digit of the run, and submits nothing to the
\* transport.
C16_OddDigits ==
    [][\A q \in {SkipSemis(line, ptr) + 1} : \A s \in {strtoul(line, q, libc)} :
        \A n \in {HexRunEnd(line, s.end + 1) - s.end - 1} :
            (InlineWrite(q, s, n) /\ n % 2 = 1) =>
                /\ FailsWithoutCall(FLP_ODD_DIGITS)
                /\ ptr' = s.end + 1 /\ Last(out').column = s.end + 1]_vars

\* w1 48656 has failed with OddDigits at column 3, nothing sent.
C16_Witness ==
    /\ line = <<"w", "1", " ", "4", "8", "6", "5", "6">>
    /\ Returned(FLP_ODD_DIGITS) /\ ptr = 3 /\ calls = <<>>

\* ------------------------------------------------------------------------
\* C17: the bytes of an inline write
\* ------------------------------------------------------------------------

\* The value of a hex digit, upper or lower case.
DigitValue(c) ==
    CASE c = "0" -> 0 [] c = "1" -> 1 [] c = "2" -> 2 [] c = "3" -> 3 [] c = "4" -> 4
      [] c = "5" -> 5 [] c = "6" -> 6 [] c = "7" -> 7 [] c = "8" -> 8 [] c = "9" -> 9
      [] c \in {"a", "A"} -> 10 [] c \in {"b", "B"} -> 11 [] c \in {"c", "C"} -> 12
      [] c \in {"d", "D"} -> 13 [] c \in {"e", "E"} -> 14 [] c \in {"f", "F"} -> 15

\* The step has made exactly one call, a write of k bytes on channel ch,
\* byte i being 16 * (digit 2i) + (digit 2i + 1) of the digits from `from`.
OneWriteOf(ch, k, from) ==
    /\ Len(calls') = Len(calls) + 1 /\ SubSeq(calls', 1, Len(calls)) = calls
    /\ Last(calls').op = "write" /\ Last(calls').arg = ch /\ Last(calls').len = k
    /\ Len(Last(calls').bytes) = k
    /\ \A i \in 0..(k - 1) :
        Last(calls').bytes[i + 1] =
            16 * DigitValue(CharAt(line, from + 2 * i)) + DigitValue(CharAt(line, from + 2 * i + 1))

\* The line `w1 <hex>` has been executed, <hex> the encoding of the bytes b:
\* one write of b on channel 1 was made.
RoundTrip(b, upper) ==
    (line = <<"w", "1", " ">> \o HexEncode(b, upper) /\ pc = "loop") =>
        (Len(calls) = 1 /\ calls[1].op = "write" /\ calls[1].arg = 1 /\ calls[1].bytes = b)

\* C17: a Write with an inline hex run of 2k digits, once the buffer for its
\* bytes is allocated, submits exactly one transport write of k bytes on the
\* parsed channel, byte i = 16 * value(digit 2i) + value(digit 2i+1), upper
\* and lower case digits accepted; and the line that writes the hex encoding
\* of a byte sequence sends exactly that byte sequence.
C17_InlineWriteBytes ==
    /\ [][\A q \in {SkipSemis(line, ptr) + 1} : \A s \in {strtoul(line, q, libc)} :
            \A n \in {HexRunEnd(line, s.end + 1) - s.end - 1} :
                (InlineWrite(q, s, n) /\ n % 2 = 0 /\ pc' # "crash") =>
                    OneWriteOf(s.ul[4], n \div 2, s.end + 1)]_vars
    /\ [](pc = "loop" /\ line \in EncodedWrites =>
            \A b \in ByteSeqs(MaxBytes) \ {<<>>} : \A upper \in BOOLEAN : RoundTrip(b, upper))

\* w7F 4a4B has sent the bytes 0x4A 0x4B on channel 0x7F.
C17_Witness ==
    /\ line = <<"w", "7", "F", " ", "4", "a", "4", "B", ";", "r", "3", " ", "2", ";", "+", "f", "f">>
    /\ pc = "loop" /\ Len(calls) = 1 /\ calls[1].op = "write" /\ calls[1].ok
    /\ calls[1].arg = 127 /\ calls[1].bytes = <<74, 75>>

\* The encoding 1FA5 has been written as the bytes 0x1F 0xA5 on channel 1.
C17_RoundTripWitness ==
    /\ line = <<"w", "1", " ">> \o HexEncode(<<31, 165>>, TRUE)
    /\ line = <<"w", "1", " ", "1", "F", "A", "5">>
    /\ pc = "loop" /\ calls[1].ok /\ calls[1].bytes = <<31, 165>>

\* ------------------------------------------------------------------------
\* C18: the cursor moves forward only
\* ------------------------------------------------------------------------

\* C18: throughout one parseLine call the parse cursor never moves
\* backwards: every step leaves it at an offset greater than or equal to its
\* previous offset, and the step of an action leaves it at or after the
\* offset it had once the ';' before the action were skipped.
C18_CursorForward ==
    [][ptr' >= ptr /\ (pc = "top" => ptr' >= SkipSemis(line, ptr))]_vars

\* The cursor has gone over `r1 2;` and failed the range check of the second
\* action, just after its letter.
C18_Witness ==
    /\ line = <<"r", "1", " ", "2", ";", "r", "2", "0", "0">>
    /\ Returned(FLP_CHAN_RANGE) /\ ptr = 6 /\ Len(calls) = 1

\* ------------------------------------------------------------------------
\* C19: a read into a file
\* ------------------------------------------------------------------------

\* The successful calls of function op that the running action has made.
DoneByAction(op) == SelectSeq(calls, LAMBDA c : c.op = op /\ c.ok /\ c.act = actNo)

\* The chunks (offset in the channel's stream, length) of a sequence of calls.
Chunks(cs) == [i \in 1..Len(cs) |-> [off |-> cs[i].off, len |-> cs[i].len]]

\* Every chunk awaited is in the file, in the order awaited, but for the one
\* just awaited, which the next step writes; the last write may be short.
WrittenAsAwaited ==
    /\ Len(fileData) = Len(DoneByAction("await")) - (IF pc \in {"rd_write", "rd_writelast"} THEN 1 ELSE 0)
    /\ \A i \in 1..Len(fileData) :
        /\ fileData[i].off = DoneByAction("await")[i].off
        /\ \/ fileData[i].len = DoneByAction("await")[i].len
           \/ i = Len(fileData) /\ status = FLP_CANNOT_SAVE /\ pc = "rd_ret"

\* The file holds the chunks submitted, in submission order: `length` bytes.
FileIsWhatWasSubmitted ==
    fileData = Chunks(DoneByAction("submit")) /\ SumLen(fileData) = length

\* C19: for a Read with a File destination, each awaited chunk is appended
\* to the file before the next await, so on success the file content is the
\* concatenation of the received chunks in submission order, and the
\* OutputBuffer is left unchanged; if a file write is short, doRead fails
\* with CannotSave immediately, issuing no further submit or await.
C19_FileRead ==
    /\ [](pc \in ReadPcs => WrittenAsAwaited)
    /\ [](ReadReturnedOk => FileIsWhatWasSubmitted)
    /\ [][(pc \in ReadPcs /\ pc' # "done") => dataFromFPGA' = dataFromFPGA]_vars
    /\ [][(pc \in {"rd_write", "rd_writelast"} /\ Last(fileData').len # recv.len) =>
            (pc' = "rd_ret" /\ status' = FLP_CANNOT_SAVE /\ calls' = calls)]_vars
    /\ [][(pc = "rd_ret" /\ status = FLP_CANNOT_SAVE) =>
            (pc' = "done" /\ retVal' = FLP_CANNOT_SAVE /\ calls' = calls)]_vars

\* `r3 2;r1 10001 "f"` has read two bytes into the OutputBuffer and then two
\* chunks, of 65536 bytes and of 1 byte, into the file.
C19_Witness ==
    /\ line = <<"r", "3", " ", "2", ";", "r", "1", " ", "1", "0", "0", "0", "1", " ", "\"", "f", "\"">>
    /\ pc = "loop" /\ actNo = 2 /\ Len(dataFromFPGA) = 2
    /\ fileData = <<[off |-> 2, len |-> 65536], [off |-> 65538, len |-> 1]>>

\* A short write of the first chunk has ended that read with CannotSave, the
\* second chunk submitted and never awaited.
C19_ShortWrite ==
    /\ line = <<"r", "3", " ", "2", ";", "r", "1", " ", "1", "0", "0", "0", "1", " ", "\"", "f", "\"">>
    /\ Returned(FLP_CANNOT_SAVE) /\ Len(fileData) = 1 /\ fileData[1].len = 65535
    /\ Len(calls) = 4 /\ Last(calls).op = "await"

\* ------------------------------------------------------------------------
\* C20: a read into memory
\* ------------------------------------------------------------------------

\* The action at the cursor is a Read without a file name.
MemoryRead == pc = "top" /\ Action.kind = "rmem"

\* C20 as stated: a Read with a Memory destination is executed with the
\* pipelined chunking of a File read: what it asks of the transport is
\* submitted (and later awaited) in chunks of at most 65536 bytes.
C20_AsStated ==
    [][(MemoryRead /\ calls' # calls) =>
            (Last(calls').op = "submit" /\ Last(calls').len <= READ_MAX)]_vars

\* C20, amended: a Read with a Memory destination is executed with one
\* synchronous transport read of the whole length on the parsed channel,
\* whatever the length, and on success the bytes received are appended to
\* the OutputBuffer as one piece.
C20_OneSynchronousRead ==
    [][MemoryRead =>
        \/ calls' = calls /\ pc' = "done" /\ retVal' = FLP_LIBERR
        \/ /\ Len(calls') = Len(calls) + 1 /\ SubSeq(calls', 1, Len(calls)) = calls
           /\ Last(calls').op = "read" /\ Last(calls').len = Action.len
           /\ Last(calls').arg = Action.chan
           /\ IF Last(calls').ok
              THEN /\ pc' = "loop"
                   /\ dataFromFPGA' = dataFromFPGA \o DevBytes(devPos, Action.len)
              ELSE pc' = "done" /\ retVal' = FLP_LIBERR]_vars

\* `r1 10001` has read its 65537 bytes with one call.
C20_Witness ==
    /\ line = <<"r", "1", " ", "1", "0", "0", "0", "1">> /\ pc = "loop"
    /\ Len(calls) = 1 /\ calls[1].op = "read" /\ calls[1].ok /\ calls[1].len = READ_MAX + 1
    /\ Len(dataFromFPGA) = READ_MAX + 1

\* ------------------------------------------------------------------------
\* C21: the OutputBuffer is append-only
\* ------------------------------------------------------------------------

\* The length field of the Read at the cursor, as strtoul converts it: s is
\* the channel, converted from offset q.  There is none when the channel is
\* not followed by a space.
LengthField(s) == strtoul(line, s.end + 1, libc)

\* The step of a memory Read that succeeds has extended the OutputBuffer by
\* n bytes and left the bytes it held alone.
ExtendedBy(n) ==
    /\ Len(dataFromFPGA') = Len(dataFromFPGA) + n
    /\ \A i \in 1..Len(dataFromFPGA) : dataFromFPGA'[i] = dataFromFPGA[i]

\* A step of anything but a memory Read, cleanup apart, leaves the
\* OutputBuffer as it was.
OthersLeaveBuffer ==
    (~MemoryRead /\ pc' # "done") => dataFromFPGA' = dataFromFPGA

\* At the dump the OutputBuffer holds the data the line's memory reads
\* returned, in action order.
DumpIsWhatWasRead ==
    Returned(FLP_SUCCESS) => (Last(out).ev = "dump" /\ Last(out).bytes = Received(calls))

\* C21 as stated: each memory Read extends the OutputBuffer by exactly the
\* requested length (the number in its length field, 1 when the length is
\* omitted) and never alters the bytes appended by earlier actions; Write,
\* SelectConduit and file Read leave it unchanged; at the dump its content
\* is the concatenation, in action order, of the data the memory reads
\* returned.
C21_AppendOnly ==
    /\ [][\A q \in {SkipSemis(line, ptr) + 1} : \A s \in {strtoul(line, q, libc)} :
            (MemoryRead /\ pc' = "loop") =>
                ExtendedBy(IF CharAt(line, s.end) = " " THEN AsCount(LengthField(s).ul) ELSE 1)]_vars
    /\ [][OthersLeaveBuffer]_vars
    /\ [](DumpIsWhatWasRead)

\* What does hold: the same with the length narrowed to 32 bits, as the
\* code narrows it.
C21_AppendOnlyNarrowed ==
    /\ [][\A q \in {SkipSemis(line, ptr) + 1} : \A s \in {strtoul(line, q, libc)} :
            (MemoryRead /\ pc' = "loop") =>
                ExtendedBy(IF CharAt(line, s.end) = " "
                           THEN AsCount(Uint32(LengthField(s).ul)) ELSE 1)]_vars
    /\ [][OthersLeaveBuffer]_vars
    /\ [](DumpIsWhatWasRead)

\* ------------------------------------------------------------------------
\* C22: what doRead leaves outstanding
\* ------------------------------------------------------------------------

\* C22 as stated: when doRead returns, whether with success or with a
\* failure, every read chunk that was successfully submitted has been
\* awaited: no submitted and unawaited read is outstanding on the transport.
C22_DrainedOnReturn == pc = "rd_ret" => outstanding = <<>>

\* What does hold: a doRead that returns success leaves nothing outstanding.
C22_DrainedOnSuccess == ReadReturnedOk => outstanding = <<>>

\* doRead has returned CannotSave for a short write of chunk 1 with chunk 2
\* submitted and not awaited.
C22_LeftOutstanding ==
    /\ pc = "rd_ret" /\ status = FLP_CANNOT_SAVE
    /\ Len(outstanding) = 1 /\ outstanding[1].id = 2 /\ Last(calls).op = "await"

\* ------------------------------------------------------------------------
\* C23: files and buffers are released exactly once
\* ------------------------------------------------------------------------

\* How often the resource event e has happened.
Count(e) == Len(SelectSeq(res, LAMBDA x : x = e))

\* How many of the things got with event `got` have not met their event
\* `released` yet.
Held(got, released) == Count(got) - Count(released)

\* Nothing is released that is not held, and one file, one file name and one
\* data buffer at most are held at a time.
OneAtATime ==
    /\ Held("fopen", "fclose") \in {0, 1}
    /\ Held("malloc fileName", "free fileName") \in {0, 1}
    /\ Held("malloc data", "free data") \in {0, 1}

NothingHeld ==
    /\ Held("fopen", "fclose") = 0 /\ file = NONE
    /\ Held("malloc fileName", "free fileName") = 0
    /\ Held("malloc data", "free data") = 0

\* C23: on every return path of parseLine each file opened during the line
\* has been closed exactly once and the file name buffer, the inline hex
\* data buffer and the OutputBuffer have each been released exactly once; at
\* the start of every action no file is open and no file name or data
\* buffer is held.
C23_ReleasedOnce ==
    /\ pc \notin {"start", "crash"} => OneAtATime
    /\ pc \in {"top", "loop"} => (NothingHeld /\ Count("bufDestroy") = 0)
    /\ pc = "done" => (NothingHeld /\ Count("bufDestroy") = 1)

\* A read into a file has failed in doRead with its file open, which
\* cleanup closed.
C23_Witness ==
    /\ line = <<"r", "3", " ", "2", ";", "r", "1", " ", "1", "0", "0", "0", "1", " ", "\"", "f", "\"">>
    /\ Returned(FLP_CANNOT_SAVE) /\ Len(fileData) = 1
    /\ Count("fopen") = 1 /\ Count("fclose") = 1 /\ Last(res) = "fclose"
    /\ Count("malloc fileName") = 1 /\ Count("bufDestroy") = 1

\* ------------------------------------------------------------------------
\* C24: one throughput line for an action that reaches the transport
\* ------------------------------------------------------------------------

\* The throughput lines action k has printed, and the read, write, submit or
\* await calls it has made.
BenchLines(k) == SelectSeq(out, LAMBDA e : e.ev = "bench" /\ e.act = k)

TransferCalls(k) == SelectSeq(calls, LAMBDA c : c.act = k /\ c.op # "select")

\* C24: with benchmarking enabled, exactly one throughput line is printed
\* for each Read or Write action that reaches the transport, once its
\* transfer has returned, whether the transfer succeeded or failed, and none
\* for any other action; with benchmarking disabled no throughput line is
\* ever printed.
C24_OneThroughputLine ==
    \A k \in 1..actNo :
        /\ Len(BenchLines(k)) <= 1
        /\ ~enableBenchmarking => BenchLines(k) = <<>>
        /\ BenchLines(k) # <<>> => TransferCalls(k) # <<>>
        /\ (enableBenchmarking /\ pc \in {"top", "loop", "done"} /\ TransferCalls(k) # <<>>) =>
              Len(BenchLines(k)) = 1

\* `w7F 4a4B;r3 2;+ff` has printed a line for its write and one for its
\* read, whose transfer failed, and none for its conduit.
C24_Witness ==
    /\ line = <<"w", "7", "F", " ", "4", "a", "4", "B", ";", "r", "3", " ", "2", ";", "+", "f", "f">>
    /\ enableBenchmarking /\ Returned(FLP_LIBERR) /\ Len(calls) = 2 /\ ~calls[2].ok
    /\ Len(BenchLines(1)) = 1 /\ Len(BenchLines(2)) = 1 /\ Len(out) = 2

\* ------------------------------------------------------------------------
\* C25: when the character after an action is checked
\* ------------------------------------------------------------------------

\* A character that may not follow an action.
Stray(c) == c \notin {NUL, ";"}

\* The step is a failure of the parse, with one of the two codes, that
\* calls nothing.
RefusedUncalled(codes) ==
    pc' = "done" /\ retVal' \in codes /\ calls' = calls /\ conduit' = conduit

\* C25: a Write with a valid even-length inline hex run that is immediately
\* followed by a character that is neither ';' nor end-of-line first submits
\* the write to the transport and only afterwards, the write having
\* succeeded, fails with IllegalChar at that character; so does a Read or a
\* Write with a quoted file name followed by such a character, its transfer
\* made and successful; whereas a Read without file name and a
\* SelectConduit followed by a character that may not follow them fail
\* before any transport call.
C25_WhenFollowerIsChecked ==
    /\ [][\A q \in {SkipSemis(line, ptr) + 1} : \A s \in {strtoul(line, q, libc)} :
            \A n \in {HexRunEnd(line, s.end + 1) - s.end - 1} :
                (InlineWrite(q, s, n) /\ n % 2 = 0 /\ Stray(CharAt(line, s.end + 1 + n))
                    /\ pc' # "crash") =>
                    /\ OneWriteOf(s.ul[4], n \div 2, s.end + 1)
                    /\ Last(calls').ok => (pc' = "loop" /\ ptr' = s.end + 1 + n)]_vars
    /\ [][(pc = "loop" /\ Stray(CharAt(line, ptr))) => IllegalCharAt(ptr)]_vars
    /\ [](pc = "loop" /\ Stray(CharAt(line, ptr)) =>
            /\ TransferCalls(actNo) # <<>> /\ AllOk(TransferCalls(actNo))
            /\ Last(calls).act = actNo /\ Last(calls).op \in {"write", "await", "awaitWrites"}
            /\ CharAt(line, ptr - 1) \in {"\"", "'"} \/ Last(calls).op = "write")
    /\ [][\A q \in {SkipSemis(line, ptr) + 1} : \A s \in {strtoul(line, q, libc)} :
            /\ (NumberAfter("r", q, s) /\ CharAt(line, s.end) \notin {NUL, ";", " "}) =>
                    RefusedUncalled({FLP_ILL_CHAR, FLP_CHAN_RANGE})
            /\ (NumberAfter("+", q, s) /\ Stray(CharAt(line, s.end))) =>
                    RefusedUncalled({FLP_ILL_CHAR, FLP_CONDUIT_RANGE})]_vars

\* w1 00zz has sent its byte and then failed at the first z.
C25_Witness ==
    /\ line = <<"w", "1", " ", "0", "0", "z", "z">>
    /\ Returned(FLP_ILL_CHAR) /\ ptr = 5 /\ Last(out).column = 5
    /\ Len(calls) = 1 /\ calls[1].op = "write" /\ calls[1].ok /\ calls[1].bytes = <<0>>

\* `w5 "f"z` has written its file and then failed at the z.
C25_FileWriteWitness ==
    /\ line = <<"w", "5", " ", "\"", "f", "\"", "z">>
    /\ Returned(FLP_ILL_CHAR) /\ ptr = 6
    /\ AllOk(calls) /\ Last(calls).op = "awaitWrites" /\ Len(calls) = 3

\* r1 5 'f'z has read its five bytes into the file and then failed at the z.
C25_FileWitness ==
    /\ line = <<"r", "1", " ", "5", " ", "'", "f", "'", "z">>
    /\ Returned(FLP_ILL_CHAR) /\ ptr = 8
    /\ Len(calls) = 2 /\ AllOk(calls) /\ fileData = <<[off |-> 0, len |-> 5]>>

\* ---------------------------------------------------------------------
\* The parse cursor and the line's terminator
\* ---------------------------------------------------------------------

\* Bytes that may happen to lie in memory behind the line's terminator.
Beyond == {<<"1">>, <<"\"">>, <<"'">>, <<";">>, <<" ", "f">>, <<"r", "1">>}

\* The line as it lies in memory with g behind its terminator.
InMemory(g) == line \o <<NUL>> \o g

\* C26: the parse cursor stays within the line including its terminator:
\* at every point of parseLine its offset is in 0..length of the line, every
\* reported error column is in 0..length, and no character behind the
\* terminator is examined (what an action parses to does not depend on
\* what lies there).
C26_CursorInLine ==
    /\ ptr \in 0..Len(line)
    /\ \A i \in 1..Len(out) : out[i].ev = "diag" => out[i].column \in 0..Len(line)
    /\ pc = "top" =>
        /\ Action.ptr \in 0..Len(line) /\ Action.at \in 0..Len(line)
        /\ SkipSemis(line, ptr) \in 0..Len(line)
        /\ \A g \in Beyond : ParseAction(InMemory(g), ptr, libc) = Action

\* `w1 ` is refused at its terminator: the character after the space is
\* the NUL, and the column reported is the length of the line.
C26_Witness ==
    /\ line = <<"w", "1", " ">>
    /\ Returned(FLP_ILL_CHAR) /\ ptr = Len(line) /\ Last(out).column = Len(line)
    /\ calls = <<>>

\* In `r1 2 "f` the scan for the closing quote has stopped at the terminator.
C26_UntermWitness ==
    /\ line = <<"r", "1", " ", "2", " ", "\"", "f">>
    /\ Returned(FLP_UNTERM_STRING) /\ ptr = 6

\* ------------------------------------------------------------------------
\* The rail cipher: concat, bitXor, findki, findti, findt, encrypt, decrypt.
\* A uint32 is the pair <<high, low>> of its 16-bit halves; a uint8 and an
\* int that stays small are numbers.
\* ------------------------------------------------------------------------

\* bit j of a
Bit(a, j) == (a \div 2^j) % 2

\* a & b on 16 bits
BitAnd(a, b) ==
    BagCardinality([j \in {k \in 0..15 : Bit(a, k) = 1 /\ Bit(b, k) = 1} |-> 2^j])

\* a | b on 16 bits
BitOr(a, b) ==
    BagCardinality([j \in {k \in 0..15 : Bit(a, k) = 1 \/ Bit(b, k) = 1} |-> 2^j])

\* x & y
And32(x, y) == <<BitAnd(x[1], y[1]), BitAnd(x[2], y[2])>>

\* x - y in uint32
Minus32(x, y) ==
    <<(x[1] - y[1] - (IF x[2] < y[2] THEN 1 ELSE 0) + 65536) % 65536,
      (x[2] - y[2] + 65536) % 65536>>

\* b << 4
Shl4(b) == <<(b[1] * 16 + b[2] \div 4096) % 65536, (b[2] * 16) % 65536>>

\* a / 2U
Half(a) == <<a[1] \div 2, (a[1] % 2) * 32768 + a[2] \div 2>>

\* c = c*a in int: the low 32 bits of the product, and whether the product
\* has left the range of int (which the language leaves undefined).
IntTimes(c, a) ==
    [val |-> <<(c.val[1] * a + (c.val[2] * a) \div 65536) % 65536, (c.val[2] * a) % 65536>>,
     overflow |-> c.overflow \/ c.val[1] * a + (c.val[2] * a) \div 65536 >= 32768]

\* The loops below are written as: the rounds lo .. hi-1, applied in order
\* to what the loop carries. The first half of the rounds is computed before
\* the second half begins.

\* for(int i = lo; i < hi; i++) c = c*a;
RECURSIVE pow1Rounds(_, _, _, _)
pow1Rounds(a, c, lo, hi) ==
    IF hi <= lo THEN c
    ELSE IF hi = lo + 1 THEN IntTimes(c, a)
    ELSE CHOOSE r \in {pow1Rounds(a, w, (lo + hi) \div 2, hi) :
                            w \in {pow1Rounds(a, c, lo, (lo + hi) \div 2)}} : TRUE

pow1(a, b) == pow1Rounds(a, [val |-> <<0, 1>>, overflow |-> FALSE], 0, b)

popcount(x) == Cardinality({k \in 0..15 : Bit(x, k) = 1})

count1(a) == popcount(a[1]) + popcount(a[2])

\* uint32 b = pow1(2,32) - 1; b -= a;
neg(a) == Minus32(Minus32(pow1(2, 32).val, <<0, 1>>), a)

\* for (int i = lo; i < hi; i++) { b = b << 4; b |= a; }
RECURSIVE concatRounds(_, _, _, _)
concatRounds(a, b, lo, hi) ==
    IF hi <= lo THEN b
    ELSE IF hi = lo + 1 THEN <<Shl4(b)[1], BitOr(Shl4(b)[2], a)>>
    ELSE CHOOSE r \in {concatRounds(a, w, (lo + hi) \div 2, hi) :
                            w \in {concatRounds(a, b, lo, (lo + hi) \div 2)}} : TRUE

concat(a) == concatRounds(a, <<0, BitOr(0, a)>>, 0, 8)

bitXor(x, y) == And32(neg(And32(x, y)), neg(And32(neg(x), neg(y))))

\* for(int i = lo; i < hi; i++) { b = a % 2U; a = a/2U; }
RECURSIVE findkiRounds(_, _, _)
findkiRounds(s, lo, hi) ==
    IF hi <= lo THEN s
    ELSE IF hi = lo + 1 THEN [a |-> Half(s.a), b |-> s.a[2] % 2]
    ELSE CHOOSE r \in {findkiRounds(w, (lo + hi) \div 2, hi) :
                            w \in {findkiRounds(s, lo, (lo + hi) \div 2)}} : TRUE

findki(a, n) == findkiRounds([a |-> a, b |-> 0], 0, n + 1).b

\* for(int i = n+4*lo; i < n+4*hi; i = i+4) { k = findki(key,i); t = bitXor(t,k); }
\* with t a uint8
RECURSIVE findtiRounds(_, _, _, _, _)
findtiRounds(key, n, t, lo, hi) ==
    IF hi <= lo THEN t
    ELSE IF hi = lo + 1 THEN bitXor(<<0, t>>, <<0, findki(key, n + 4 * lo)>>)[2] % 256
    ELSE CHOOSE r \in {findtiRounds(key, n, w, (lo + hi) \div 2, hi) :
                            w \in {findtiRounds(key, n, t, lo, (lo + hi) \div 2)}} : TRUE

\* i runs from n+4 in steps of 4 while it is below 32
findti(key, n) == findtiRounds(key, n, findki(key, n % 4), 1, (31 - n) \div 4 + 1)

\* for(int i = lo; i < hi; i++) { k = findti(key,i); t += k*pow1(2,i); }
RECURSIVE findtRounds(_, _, _, _)
findtRounds(key, t, lo, hi) ==
    IF hi <= lo THEN t
    ELSE IF hi = lo + 1 THEN t + findti(key, lo) * pow1(2, lo).val[2]
    ELSE CHOOSE r \in {findtRounds(key, w, (lo + hi) \div 2, hi) :
                            w \in {findtRounds(key, t, lo, (lo + hi) \div 2)}} : TRUE

findt(key) == findtRounds(key, 0, 0, 4) % 256

\* for(uint8 i = lo; i < hi; i++) { inter = concat(t); cipher = bitXor(cipher,inter);
\* t = (t+1) % 16U; }
RECURSIVE encryptRounds(_, _, _)
encryptRounds(s, lo, hi) ==
    IF hi <= lo THEN s
    ELSE IF hi = lo + 1 THEN [cipher |-> bitXor(s.cipher, concat(s.t)), t |-> (s.t + 1) % 16]
    ELSE CHOOSE r \in {encryptRounds(w, (lo + hi) \div 2, hi) :
                            w \in {encryptRounds(s, lo, (lo + hi) \div 2)}} : TRUE

encrypt(inp, key) ==
    encryptRounds([cipher |-> inp, t |-> findt(key)], 0, count1(key) % 256).cipher

\* for(uint8 i = lo; i < hi; i++) { inter = concat(t); cipher = bitXor(cipher,inter);
\* t = (t+15) % 16U; }
RECURSIVE decryptRounds(_, _, _)
decryptRounds(s, lo, hi) ==
    IF hi <= lo THEN s
    ELSE IF hi = lo + 1 THEN [cipher |-> bitXor(s.cipher, concat(s.t)), t |-> (s.t + 15) % 16]
    ELSE CHOOSE r \in {decryptRounds(w, (lo + hi) \div 2, hi) :
                            w \in {decryptRounds(s, lo, (lo + hi) \div 2)}} : TRUE

\* decrypt that starts at t instead of one step below it
decrypt_FromT(inp, key) ==
    decryptRounds([cipher |-> inp, t |-> findt(key)], 0, 32 - (count1(key) % 256)).cipher

decrypt(inp, key) ==
    decryptRounds([cipher |-> inp, t |-> (findt(key) + 15) % 16], 0,
                  32 - (count1(key) % 256)).cipher

\* uint32 key = 0x9999999F in send_to_fpga and receive_from_fpga
FpgaKey == <<39321, 39327>>

\* ACK1 = 0xCCCCCCCC, ACK2 = 0x33333333
ACK1 == <<52428, 52428>>

ACK2 == <<13107, 13107>>

\* ------------------------------------------------------------------------
\* encrypt and decrypt applied to a word, for every input and key below and
\* for both builds: the one whose int products wrap, the one that traps them.
\* ------------------------------------------------------------------------

\* the calls in a row made on one word
MaxCalls == 2

\* 0, 0xFFFFFFFF, ACK1, 0x00000023, 0x12345678
Inputs == {<<0, 0>>, <<65535, 65535>>, ACK1, <<0, 35>>, <<4660, 22136>>}

\* the key of the program, 0, 0xFFFFFFFF, 1, 0x12345678, 0xF0F0F0F1
Keys == {FpgaKey, <<0, 0>>, <<65535, 65535>>, <<0, 1>>, <<4660, 22136>>, <<61680, 61681>>}

\* main is not in parseLine: parseLine's state is as before any call of it.
ParseLineIdle ==
    /\ line = <<>> /\ libc = [einval |-> FALSE, digits |-> 16] /\ enableBenchmarking = FALSE
    /\ seed = 0
    /\ pc = "main"
    /\ ptr = 0
    /\ retVal = FLP_SUCCESS /\ actNo = 1 /\ chan = 0 /\ length = 1
    /\ status = FLP_SUCCESS /\ checksum = 0 /\ rdLength = 0 /\ csVal = 0 /\ lenVal = 0
    /\ recv = [off |-> 0, len |-> 0] /\ bytesRead = 0 /\ srcLen = 0 /\ srcPos = 0
    /\ file = NONE /\ fileData = <<>>
    /\ dataFromFPGA = <<>> /\ out = <<>> /\ res = <<>>
    /\ calls = <<>> /\ outstanding = <<>> /\ devPos = 0 /\ conduit = 1

parseLineState ==
    <<line, libc, enableBenchmarking, seed, parser, engine, owned, transport, pc, out>>

InitCipher ==
    /\ ParseLineIdle
    /\ rail = NONE
    /\ \E inp \in Inputs, key \in Keys, traps \in BOOLEAN :
        cipher = [inp |-> inp, key |-> key, val |-> inp, did |-> <<>>,
                  traps |-> traps, trapped |-> FALSE]

\* A call of encrypt or decrypt returns, or the build has stopped the
\* program at the overflowing product of neg.
Encrypt ==
    /\ ~cipher.trapped
    /\ Len(cipher.did) < MaxCalls
    /\ IF cipher.traps /\ pow1(2, 32).overflow
       THEN cipher' = [cipher EXCEPT !.trapped = TRUE]
       ELSE cipher' = [cipher EXCEPT !.val = encrypt(cipher.val, cipher.key),
                                     !.did = Append(@, "encrypt")]
    /\ UNCHANGED <<parseLineState, rail>>

Decrypt ==
    /\ ~cipher.trapped
    /\ Len(cipher.did) < MaxCalls
    /\ IF cipher.traps /\ pow1(2, 32).overflow
       THEN cipher' = [cipher EXCEPT !.trapped = TRUE]
       ELSE cipher' = [cipher EXCEPT !.val = decrypt(cipher.val, cipher.key),
                                     !.did = Append(@, "decrypt")]
    /\ UNCHANGED <<parseLineState, rail>>

NextCipher == Encrypt \/ Decrypt

SpecCipher == InitCipher /\ [][NextCipher]_vars

\* ---------------------------------------------------------------------
\* The round trip of the rail cipher
\* ---------------------------------------------------------------------

\* C27: the rail cipher is a round trip for every input and every key:
\* decrypt(encrypt(x, key), key) = x and encrypt(decrypt(x, key), key) = x,
\* in particular for the key 0x9999999F of send_to_fpga and
\* receive_from_fpga.
C27_RoundTrip ==
    cipher.did \in {<<"encrypt", "decrypt">>, <<"decrypt", "encrypt">>} =>
        cipher.val = cipher.inp

\* 0x12345678 has been encrypted under the program's key to another word,
\* and decrypted again.
C27_Witness ==
    /\ cipher.inp = <<4660, 22136>> /\ cipher.key = FpgaKey
    /\ cipher.did = <<"encrypt", "decrypt">>
    /\ cipher.val = cipher.inp

\* decrypt first: ACK1 under the key 0xF0F0F0F1, then encrypted again.
C27_DecryptFirst ==
    /\ cipher.inp = ACK1 /\ cipher.key = <<61680, 61681>>
    /\ cipher.did = <<"decrypt", "encrypt">>
    /\ cipher.val = cipher.inp

\* encrypt changes the word: 0x00000023 under the program's key is 0x11111132.
C27_Encrypted ==
    /\ cipher.inp = <<0, 35>> /\ cipher.key = FpgaKey
    /\ cipher.did = <<"encrypt">>
    /\ cipher.val = <<4369, 4402>>

\* The build that traps int overflow has stopped in the first call.
C27_Trapped == cipher.trapped /\ cipher.did = <<>>

\* ------------------------------------------------------------------------
\* main, case 'f': the rail-info loop over the channels 0 .. 63.
\* The sleeps, the text printed and process_counter, which is only printed,
\* are left out; of the words sent only the kind of the last one is kept.
\* ------------------------------------------------------------------------

\* for(uint8 chan = 0; chan < 64; chan++)
Channels == 64

\* for(int j = 0; j < 256; j++), twice
AckPolls == 256

\* for(int t = 0; t < 20; t++)
S3Polls == 20

\* file_data[8][64], eight bytes for each of 8 * 8 coordinates
TrackSide == 8

\* flReadChannelAsyncSubmit or flReadChannelAsyncAwait has failed
NOTHING == <<>>

\* What a receive finds: ACK1, the coordinates x = 2, y = 3 and 0x11111111,
\* each as encrypt under the program's key leaves it on the wire
\* (0xDDDDDDDD, 0x11111132, 0x00000000), or a call that fails.
Responses == {<<56797, 56797>>, <<4369, 4402>>, <<0, 0>>, NOTHING}

\* The words decrypted_data can hold: what the device's words decrypt to,
\* their low bytes, and 0.
Words == {ACK1, <<0, 35>>, <<4369, 4369>>, <<0, 204>>, <<0, 17>>, <<0, 0>>}

\* decrypt and encrypt under the program's key, on the words that occur
Decrypted == [w \in Responses \ {NOTHING} |-> decrypt(w, FpgaKey)]

Encrypted == [w \in Words |-> encrypt(w, FpgaKey)]

\* decrypt(encrypt(w, key), key), as PollS3 computes it
Restored == [w \in Words |-> decrypt(Encrypted[w], FpgaKey)]

\* receive_from_fpga: *decrypted_data = decrypt(received_data, key), or
\* *decrypted_data as it was when a transport call has failed
receive_from_fpga(decrypted_data, r) ==
    IF r = NOTHING THEN decrypted_data ELSE Decrypted[r]

\* decrypted_data % 256U
LowByte(w) == <<0, w[2] % 256>>

\* x = decrypted_data / 16U, y = decrypted_data % 16U, kept in
\* resend_coorddata = (x * 16) + y: file_data[x][(y * 8) + i] lies in the
\* row x of the table
InTable ==
    /\ rail.resend_coorddata[2] \div 16 < TrackSide
    /\ rail.resend_coorddata[2] % 16 < TrackSide

InitRail ==
    /\ ParseLineIdle
    /\ cipher = NONE
    /\ \E traps \in BOOLEAN, csv \in BOOLEAN :
        rail = [pc |-> "greet", chan |-> 0, step |-> 0, norm |-> 0,
                decrypted_data |-> <<0, 0>>, resend_coorddata |-> <<0, 0>>,
                j |-> 0,            \* the j of the loop being run, 0 outside
                t |-> 0,            \* the t of for(t), 0 outside
                sent |-> "none",    \* what send_to_fpga was last called with
                error |-> FALSE,    \* *error has been freed and not reset
                traps |-> traps,    \* the build traps int overflow
                csv |-> csv]        \* track_data.csv can be opened

\* cleanup: if(*error){ fprintf(stderr, "%s\n", *error); flFreeError(*error); }
\* in receive_from_fpga and send_to_fpga. A call that fails leaves *error
\* pointing at the message freed; a call that succeeds after that prints
\* and frees it a second time. made has TRUE for each call that succeeds,
\* in the order made.
RECURSIVE AfterCalls(_, _)
AfterCalls(error, made) ==
    IF made = <<>> THEN [error |-> error, twice |-> FALSE]
    ELSE IF Head(made) /\ error THEN [error |-> TRUE, twice |-> TRUE]
    ELSE AfterCalls(error \/ ~Head(made), Tail(made))

\* The locals after a step that makes these made: as the code leaves them,
\* or, the message freed twice, whatever the build makes of that.
Called(made, locals) ==
    \E a \in {AfterCalls(rail.error, made)} :
        \/ rail' = [locals EXCEPT !.error = a.error]
        \/ a.twice /\ rail' = [rail EXCEPT !.pc = "undefined"]

\* Lines 1101-1115: the coordinates are received and sent back, and the
\* answer is received. In the build that traps, the encrypt of send_to_fpga
\* stops the program.
Greet ==
    /\ rail.pc = "greet"
    /\ IF rail.traps /\ pow1(2, 32).overflow
       THEN rail' = [rail EXCEPT !.pc = "aborted"]
       ELSE \E r1 \in Responses, r2 \in Responses, s \in BOOLEAN :
            \E coords \in {LowByte(receive_from_fpga(rail.decrypted_data, r1))} :
                Called(<<r1 # NOTHING, s, r2 # NOTHING>>,
                       [rail EXCEPT !.resend_coorddata = coords,
                                    !.decrypted_data = receive_from_fpga(coords, r2),
                                    !.sent = "coords",
                                    !.pc = "handshake"])
    /\ UNCHANGED <<parseLineState, cipher>>

\* if(decrypted_data == ACK1): text_read, ACK2 and the first four bytes of
\* rail info are sent. text_read passes a NULL stream to fscanf when the
\* file cannot be opened.
Acked ==
    /\ rail.pc = "handshake"
    /\ rail.decrypted_data = ACK1
    /\ IF ~rail.csv
       THEN rail' = [rail EXCEPT !.pc = "undefined"]
       ELSE \E s1 \in BOOLEAN, s2 \in BOOLEAN :
            Called(<<s1, s2>>, [rail EXCEPT !.sent = "info1", !.j = 0, !.pc = "poll1"])
    /\ UNCHANGED <<parseLineState, cipher>>

\* else if(step == 0): sleep(5); step++; and while(step != 2) goes round
WaitForAck ==
    /\ rail.pc = "handshake"
    /\ rail.decrypted_data # ACK1
    /\ rail.step = 0
    /\ rail' = [rail EXCEPT !.step = 1]
    /\ UNCHANGED <<parseLineState, cipher>>

\* else if(step == 1): step++; if(chan == 63) chan = -1; chan is a uint8
GiveUp ==
    /\ rail.pc = "handshake"
    /\ rail.decrypted_data # ACK1
    /\ rail.step = 1
    /\ rail' = [rail EXCEPT !.step = 2,
                            !.chan = IF rail.chan = Channels - 1 THEN 255 ELSE @,
                            !.pc = "processed"]
    /\ UNCHANGED <<parseLineState, cipher>>

\* none of the three branches: the body does nothing and, step being 2,
\* the loop ends
Skip ==
    /\ rail.pc = "handshake"
    /\ rail.decrypted_data # ACK1
    /\ rail.step \notin {0, 1}
    /\ rail' = [rail EXCEPT !.pc = IF rail.step # 2 THEN "handshake" ELSE "processed"]
    /\ UNCHANGED <<parseLineState, cipher>>

\* One round of the first for(j): on ACK1 the last four bytes are sent and
\* the inner loop begins; otherwise sleep(1) and the next round, if any.
PollFirst ==
    /\ rail.pc = "poll1"
    /\ \E r \in Responses, s \in BOOLEAN :
       \E d \in {receive_from_fpga(rail.decrypted_data, r)} :
        IF d = ACK1
        THEN Called(<<r # NOTHING, s>>,
                    [rail EXCEPT !.decrypted_data = d, !.sent = "info2", !.j = 0, !.pc = "poll2"])
        ELSE IF rail.j + 1 < AckPolls
        THEN Called(<<r # NOTHING>>, [rail EXCEPT !.decrypted_data = d, !.j = @ + 1])
        ELSE Called(<<r # NOTHING>>, [rail EXCEPT !.decrypted_data = d, !.j = 0, !.pc = "acked"])
    /\ UNCHANGED <<parseLineState, cipher>>

\* One round of the inner for(j): on ACK1, ACK2 is sent and S3 is polled;
\* when the rounds are used up the outer loop is left too (break).
PollSecond ==
    /\ rail.pc = "poll2"
    /\ \E r \in Responses, s \in BOOLEAN :
       \E d \in {receive_from_fpga(rail.decrypted_data, r)} :
        IF d = ACK1
        THEN Called(<<r # NOTHING, s>>,
                    [rail EXCEPT !.decrypted_data = d, !.sent = "ACK2", !.j = 0, !.t = 0,
                                 !.pc = "s3"])
        ELSE IF rail.j + 1 < AckPolls
        THEN Called(<<r # NOTHING>>, [rail EXCEPT !.decrypted_data = d, !.j = @ + 1])
        ELSE Called(<<r # NOTHING>>, [rail EXCEPT !.decrypted_data = d, !.j = 0, !.pc = "acked"])
    /\ UNCHANGED <<parseLineState, cipher>>

\* if(norm == 0) chan--; break; break;   with chan a uint8
LeaveS3(d, norm) ==
    [rail EXCEPT !.decrypted_data = d, !.norm = norm, !.t = 0,
                 !.chan = IF norm = 0 THEN (@ + 255) % 256 ELSE @,
                 !.pc = "acked"]

\* One round of for(t): the coordinates echoed are sent back and norm = 1;
\* a word that encrypt does not take to 0 is stored in file_data and the
\* file rewritten; on 0, sleep(1) and the next round, if any. The store
\* outside file_data is undefined.
PollS3 ==
    /\ rail.pc = "s3"
    /\ \E r \in Responses, r2 \in Responses, s \in BOOLEAN :
       \E d \in {receive_from_fpga(rail.decrypted_data, r)} :
        IF d = rail.resend_coorddata
        THEN Called(<<r # NOTHING, s, r2 # NOTHING>>,
                    [LeaveS3(receive_from_fpga(d, r2), 1) EXCEPT !.sent = "echo"])
        ELSE IF Encrypted[d] # <<0, 0>>
        THEN IF InTable
             THEN Called(<<r # NOTHING>>, LeaveS3(Restored[d], 0))
             ELSE rail' = [rail EXCEPT !.pc = "undefined"]
        ELSE IF rail.t + 1 < S3Polls
        THEN Called(<<r # NOTHING>>, [rail EXCEPT !.decrypted_data = Encrypted[d], !.t = @ + 1])
        ELSE Called(<<r # NOTHING>>, LeaveS3(Encrypted[d], 0))
    /\ UNCHANGED <<parseLineState, cipher>>

\* if(norm == 0) step = 2; else norm = 0;   and the test of while(step != 2)
AckedEnd ==
    /\ rail.pc = "acked"
    /\ \E step \in {IF rail.norm = 0 THEN 2 ELSE rail.step} :
        rail' = [rail EXCEPT !.step = step, !.norm = 0,
                             !.pc = IF step # 2 THEN "handshake" ELSE "processed"]
    /\ UNCHANGED <<parseLineState, cipher>>

\* a loop whose step starts at 0 for every channel
Processed_StepReset ==
    /\ rail.pc = "processed"
    /\ \E chan1 \in {(rail.chan + 1) % 256} :
        rail' = [rail EXCEPT !.chan = chan1, !.step = 0,
                             !.pc = IF chan1 < Channels THEN "greet" ELSE "done"]
    /\ UNCHANGED <<parseLineState, cipher>>

\* process_counter++, the wait of 20 seconds, chan++ and the test chan < 64
Processed ==
    /\ rail.pc = "processed"
    /\ \E chan1 \in {(rail.chan + 1) % 256} :
        rail' = [rail EXCEPT !.chan = chan1,
                             !.pc = IF chan1 < Channels THEN "greet" ELSE "done"]
    /\ UNCHANGED <<parseLineState, cipher>>

NextRail ==
    \/ Greet
    \/ Acked
    \/ WaitForAck
    \/ GiveUp
    \/ Skip
    \/ PollFirst
    \/ PollSecond
    \/ PollS3
    \/ AckedEnd
    \/ Processed

SpecRail == InitRail /\ [][NextRail]_vars

\* The program runs on: a step that can be taken is taken.
SpecRailFair == SpecRail /\ WF_vars(NextRail)

\* ---------------------------------------------------------------------
\* The handshake counter of the rail-info loop
\* ---------------------------------------------------------------------

\* C28: step never decreases and is not reset between channels; once the
\* handshake loop of the first channel processed has ended, step is 2: from
\* then on the branches of step 0 and step 1 are not taken, and the body of
\* the handshake loop, run once, ends the loop.
C28_StepOnlyGrows ==
    /\ [][rail'.step >= rail.step]_vars
    /\ [](rail.pc \in {"processed", "done"} => rail.step = 2)
    /\ [][rail.step = 2 => ~WaitForAck /\ ~GiveUp]_vars
    /\ [][(rail.step = 2 /\ (Skip \/ AckedEnd)) => rail'.pc = "processed"]_vars
    /\ [](rail.chan \in 1..(Channels - 1) => rail.step = 2)

\* Channel 2 has acknowledged with step at 2 and has echoed its coordinates
\* in S3: its handshake body has run once and the loop has ended.
C28_Witness ==
    /\ rail.pc = "processed" /\ rail.chan = 2 /\ rail.step = 2
    /\ rail.sent = "echo"

\* Channel 5 has not acknowledged, after the first channel had.
C28_LaterSilent ==
    /\ rail.pc = "processed" /\ rail.chan = 5 /\ rail.step = 2
    /\ rail.sent = "coords" /\ rail.decrypted_data # ACK1

\* The scan has reached its end.
C28_Done == rail.pc = "done" /\ rail.chan = Channels

\* ---------------------------------------------------------------------
\* The restart of the scan
\* ---------------------------------------------------------------------

\* C29: when the last channel, 63, does not acknowledge, the handshake
\* loop sets chan to -1 (255 in a uint8), so that chan++ restarts the scan
\* at channel 0.
C29_ScanRestarts ==
    [][(rail.pc = "handshake" /\ rail.chan = Channels - 1 /\ rail.decrypted_data # ACK1)
          => rail'.chan = 255]_vars

\* The branch of step 1 is only ever entered on channel 0: the test
\* chan == 63 in it never holds.
C29_GivesUpOnFirstOnly ==
    [][GiveUp => rail.chan = 0 /\ rail'.chan = 0]_vars

\* Channel 63 has not acknowledged and the scan has ended.
C29_LastSilent ==
    /\ rail.pc = "done" /\ rail.sent = "coords" /\ rail.decrypted_data # ACK1

\* ---------------------------------------------------------------------
\* Termination of the rail-info loop
\* ---------------------------------------------------------------------

\* C30: the rail-info loop is left for every sequence of device responses:
\* the scan comes to its end, or the program stops before that.
C30_Terminates == <>(rail.pc \in {"done", "aborted", "undefined"})

\* A channel after the first is being greeted again: its S3 poll has ended
\* without the echo of the coordinates and chan-- has undone the chan++.
C30_Retried ==
    /\ rail.pc = "greet" /\ rail.chan = 3 /\ rail.sent = "ACK2" /\ rail.step = 2

====
